---- MODULE Spec2Model ----
(***************************************************************************)
(* kubectl-reap: the usage determiner (pkg/determiner), the PersistentVolume *)
(* matcher and resource client (pkg/resource) and the reap runner (pkg/cmd). *)
(*                                                                         *)
(* Objects are records.  An absent pointer to a string is Nil, an absent   *)
(* pointer to a struct is the empty sequence and a present one a sequence  *)
(* of length one.  A Go map used as a set of names is a set; a nil map and *)
(* an empty map answer every lookup alike and are both the empty set.      *)
(***************************************************************************)
EXTENDS Integers, Sequences, FiniteSets, TLC

VARIABLES
    flags,        \* runner: the command-line flags
    deleteOpts,   \* runner.deleteOpts: <<>> (no grace period) or <<seconds>>
    pc,           \* position of the command: validate, complete, resources, new,
                  \* newlist, visit, lookup, approved, confirmed, verify, delete,
                  \* deleting, deleted, accessor, wait, exit
    namespace,    \* the namespace handed to New ("" is metav1.NamespaceAll)
    reap,         \* New: the kinds its visit saw (reapConfigMaps, ...)
    d,            \* the determiner New built
    sas,          \* New: the ServiceAccounts it listed for detectUsedSecrets
    calls,        \* the list requests New issued, in order
    call,         \* the last DetermineDeletion invocation and what it returned
    infos,        \* the candidates the visit of the result yields, in order
    idx,          \* how many of them the visit has handed to the callback
    prompts,      \* the candidates the confirmation prompt was shown for
    deletes,      \* the delete requests issued
    out,          \* what was written to the output stream
    deletedInfos, \* Run: deletedInfos
    uidMap,       \* Run: the locations recorded for the wait
    waited,       \* what waitDeletion was handed: <<>> or <<[infos, uids]>>
    cancelled,    \* whether the interrupt handler has cancelled the context
    errs,         \* the errors Run's callback returned to the visit, in order
    listErrs,     \* the errors of the list requests of Run's visit, in order
    seen,         \* New: what its visit has listed so far, [infos, errs]; reset
                  \* to NoVisit when New returns
    lookup,       \* the last get request Run's context was handed to: <<>> or
                  \* <<[key, sentDone]>>, sentDone the context's state when sent
    err           \* the error the command ended with, Nil if none

vars == <<flags, deleteOpts, pc, namespace, reap, d, sas, calls, call, infos, idx,
          prompts, deletes, out, deletedInfos, uidMap, waited, cancelled, errs, listErrs,
          lookup, seen, err>>

Nil == "<nil>"

(***************************************************************************)
(* Kinds and well-known names.                                             *)
(***************************************************************************)
KindPod                     == "Pod"
KindConfigMap               == "ConfigMap"
KindSecret                  == "Secret"
KindPersistentVolume        == "PersistentVolume"
KindPersistentVolumeClaim   == "PersistentVolumeClaim"
KindJob                     == "Job"
KindPodDisruptionBudget     == "PodDisruptionBudget"
KindHorizontalPodAutoscaler == "HorizontalPodAutoscaler"

NamespaceAll    == ""
NamespaceSystem == "kube-system"

PodRunning == "Running"

\* cmdutil.DryRunStrategy
DryRunNone   == "none"
DryRunClient == "client"
DryRunServer == "server"
PersistentVolumeFilesystem == "Filesystem"
PersistentVolumeBlock == "Block"

(***************************************************************************)
(* Pod specs, as far as the determiner reads them.                         *)
(***************************************************************************)
EnvFromSource(configMapRef, secretRef) ==
    [configMapRef |-> configMapRef, secretRef |-> secretRef]

EnvVarSource(configMapKeyRef, secretKeyRef) ==
    [configMapKeyRef |-> configMapKeyRef, secretKeyRef |-> secretKeyRef]

EnvVar(valueFrom) == [valueFrom |-> valueFrom]

Container(envFrom, env) == [envFrom |-> envFrom, env |-> env]

VolumeProjection(configMap, secret) == [configMap |-> configMap, secret |-> secret]

Volume(configMap, secret, projected, persistentVolumeClaim) ==
    [configMap |-> configMap, secret |-> secret, projected |-> projected,
     persistentVolumeClaim |-> persistentVolumeClaim]

PodSpec(initContainers, containers, volumes, imagePullSecrets) ==
    [initContainers |-> initContainers, containers |-> containers,
     volumes |-> volumes, imagePullSecrets |-> imagePullSecrets]

Pod(ns, labels, spec) == [namespace |-> ns, labels |-> labels, spec |-> spec]

ReplicaSet(ns, template) == [namespace |-> ns, template |-> template]

ServiceAccount(ns, secrets) == [namespace |-> ns, secrets |-> secrets]

\* A label set is a set of <<key, value>> pairs with distinct keys.
HasLabel(labels, key) == \E kv \in labels : kv[1] = key
LabelValue(labels, key) == (CHOOSE kv \in labels : kv[1] = key)[2]

(***************************************************************************)
(* PersistentVolumes and claims, as far as the matcher reads them.         *)
(* capacity and request are <<>> when the storage quantity is missing and   *)
(* <<n>> for a quantity of n halves of a unit, so <<3>> is 1.5;             *)
(* annotationClass is the legacy storage-class annotation, Nil when absent; *)
(* the claim's storageClassName and both volume modes are pointers.        *)
(***************************************************************************)
PersistentVolume(capacity, annotationClass, storageClassName, volumeMode, accessModes) ==
    [capacity |-> capacity, annotationClass |-> annotationClass,
     storageClassName |-> storageClassName, volumeMode |-> volumeMode,
     accessModes |-> accessModes]

PersistentVolumeClaim(ns, request, annotationClass, storageClassName, volumeMode, accessModes) ==
    [namespace |-> ns, request |-> request, annotationClass |-> annotationClass,
     storageClassName |-> storageClassName, volumeMode |-> volumeMode,
     accessModes |-> accessModes]

\* resource.Quantity.Value() of a map entry: the quantity rounded up to a
\* whole number; a missing entry is the zero Quantity.
QuantityValue(q) == IF q = <<>> THEN 0 ELSE (q[1] + 1) \div 2

\* A variant that accepts a volume of exactly the requested size.
checkCapacityAtLeastRequest(volume, claim) ==
    LET volumeSize    == QuantityValue(volume.capacity)
        requestedSize == QuantityValue(claim.request)
    IN  volumeSize >= requestedSize

checkCapacitySatisfyRequest(volume, claim) ==
    LET volumeSize    == QuantityValue(volume.capacity)
        requestedSize == QuantityValue(claim.request)
    IN  volumeSize > requestedSize

\* A variant that prefers the typed field to the annotation.
checkStorageClassMatchFieldFirst(volume, claim) ==
    LET requestedClass ==
            IF claim.storageClassName # Nil THEN claim.storageClassName
            ELSE IF claim.annotationClass # Nil THEN claim.annotationClass
            ELSE ""
        pvVolumeClass ==
            IF volume.storageClassName # "" THEN volume.storageClassName
            ELSE IF volume.annotationClass # Nil THEN volume.annotationClass
            ELSE ""
    IN  requestedClass = pvVolumeClass

checkStorageClassMatch(volume, claim) ==
    LET requestedClass ==
            IF claim.annotationClass # Nil THEN claim.annotationClass
            ELSE IF claim.storageClassName # Nil THEN claim.storageClassName
            ELSE ""
        pvVolumeClass ==
            IF volume.annotationClass # Nil THEN volume.annotationClass
            ELSE volume.storageClassName
    IN  requestedClass = pvVolumeClass

checkVolumeModeMatch(volume, claim) ==
    LET requestedVolumeMode ==
            IF claim.volumeMode # Nil THEN claim.volumeMode
            ELSE PersistentVolumeFilesystem
        pvVolumeMode ==
            IF volume.volumeMode # Nil THEN volume.volumeMode
            ELSE PersistentVolumeFilesystem
    IN  requestedVolumeMode = pvVolumeMode

\* A variant that wants the two sets of access modes to be equal.
checkAccessModesEqual(volume, claim) ==
    LET pvAccessModes == {volume.accessModes[i] : i \in DOMAIN volume.accessModes}
    IN  pvAccessModes = {claim.accessModes[i] : i \in DOMAIN claim.accessModes}

checkAccessModesMatch(volume, claim) ==
    LET pvAccessModes == {volume.accessModes[i] : i \in DOMAIN volume.accessModes}
    IN  \A i \in DOMAIN claim.accessModes : claim.accessModes[i] \in pvAccessModes

CheckVolumeSatisfyClaim(volume, claim) ==
    IF ~checkCapacitySatisfyRequest(volume, claim) THEN FALSE
    ELSE IF ~checkStorageClassMatch(volume, claim) THEN FALSE
    ELSE IF ~checkVolumeModeMatch(volume, claim) THEN FALSE
    ELSE IF ~checkAccessModesMatch(volume, claim) THEN FALSE
    ELSE TRUE

(***************************************************************************)
(* Label selectors: metav1.LabelSelectorAsSelector and Selector.Matches as *)
(* determineUsedPodDisruptionBudget uses them.  A selector is <<>> (nil)   *)
(* or <<[matchLabels, matchExpressions]>>; matchLabels is a set of         *)
(* <<key, value>> pairs, matchExpressions a sequence of                    *)
(* [key, operator, values].                                                *)
(***************************************************************************)
LabelSelector(matchLabels, matchExpressions) ==
    [matchLabels |-> matchLabels, matchExpressions |-> matchExpressions]

LabelSelectorRequirement(key, operator, values) ==
    [key |-> key, operator |-> operator, values |-> values]

\* The characters of the strings the model names: label keys and values,
\* and the kinds of scale targets.
LongName == "aaaaaaaaaaaaaaaaaaaaaaaaaaaaaaaaaaaaaaaaaaaaaaaaaaaaaaaaaaaaaaaa"

Chars(s) ==
    CASE s = "" -> <<>>
      [] s = LongName -> [i \in 1..64 |-> "a"]
      [] s = "app" -> <<"a", "p", "p">>
      [] s = "tier" -> <<"t", "i", "e", "r">>
      [] s = "foo" -> <<"f", "o", "o">>
      [] s = "bar" -> <<"b", "a", "r">>
      [] s = "baz" -> <<"b", "a", "z">>
      [] s = "db" -> <<"d", "b">>
      [] s = "a b" -> <<"a", " ", "b">>
      [] s = "x y" -> <<"x", " ", "y">>
      [] s = "-app" -> <<"-", "a", "p", "p">>
      [] s = "app-" -> <<"a", "p", "p", "-">>
      [] s = "example.com/app" -> <<"e", "x", "a", "m", "p", "l", "e", ".", "c", "o", "m", "/", "a", "p", "p">>
      [] s = "a/b/c" -> <<"a", "/", "b", "/", "c">>
      [] s = "Example.com/app" -> <<"E", "x", "a", "m", "p", "l", "e", ".", "c", "o", "m", "/", "a", "p", "p">>
      [] s = "Deployment" -> <<"D", "e", "p", "l", "o", "y", "m", "e", "n", "t">>
      [] s = "deployment" -> <<"d", "e", "p", "l", "o", "y", "m", "e", "n", "t">>
      [] s = "ReplicationController" -> <<"R", "e", "p", "l", "i", "c", "a", "t", "i", "o", "n", "C", "o", "n", "t", "r", "o", "l", "l", "e", "r">>
      [] s = "Ingress" -> <<"I", "n", "g", "r", "e", "s", "s">>
      [] s = "NetworkPolicy" -> <<"N", "e", "t", "w", "o", "r", "k", "P", "o", "l", "i", "c", "y">>
      [] s = "Endpoints" -> <<"E", "n", "d", "p", "o", "i", "n", "t", "s">>

LowerCase == <<"a", "b", "c", "d", "e", "f", "g", "h", "i", "j", "k", "l", "m", "n", "o", "p", "q", "r", "s", "t", "u", "v", "w", "x", "y", "z">>
UpperCase == <<"A", "B", "C", "D", "E", "F", "G", "H", "I", "J", "K", "L", "M", "N", "O", "P", "Q", "R", "S", "T", "U", "V", "W", "X", "Y", "Z">>
Digits    == <<"0", "1", "2", "3", "4", "5", "6", "7", "8", "9">>

IsAlphaNumeric(c) ==
    \/ \E i \in DOMAIN LowerCase : c = LowerCase[i]
    \/ \E i \in DOMAIN UpperCase : c = UpperCase[i]
    \/ \E i \in DOMAIN Digits : c = Digits[i]

IsLowerAlphaNumeric(c) ==
    \/ \E i \in DOMAIN LowerCase : c = LowerCase[i]
    \/ \E i \in DOMAIN Digits : c = Digits[i]

\* The pattern ([A-Za-z0-9][-A-Za-z0-9_.]*)?[A-Za-z0-9] on a non-empty
\* sequence of characters.
MatchesQualifiedName(cs) ==
    /\ cs # <<>>
    /\ IsAlphaNumeric(cs[1])
    /\ IsAlphaNumeric(cs[Len(cs)])
    /\ \A i \in DOMAIN cs : IsAlphaNumeric(cs[i]) \/ cs[i] \in {"-", "_", "."}

\* validation.IsDNS1123Subdomain: at most 253 characters; labels of lower
\* case letters, digits and '-' that begin and end with a letter or digit,
\* separated by '.'.
IsDNS1123Subdomain(cs) ==
    /\ cs # <<>>
    /\ Len(cs) <= 253
    /\ IsLowerAlphaNumeric(cs[1])
    /\ IsLowerAlphaNumeric(cs[Len(cs)])
    /\ \A i \in DOMAIN cs : IsLowerAlphaNumeric(cs[i]) \/ cs[i] \in {"-", "."}
    /\ \A i \in DOMAIN cs :
          (cs[i] = "." /\ 1 < i /\ i < Len(cs)) =>
              IsLowerAlphaNumeric(cs[i - 1]) /\ IsLowerAlphaNumeric(cs[i + 1])

\* validation.IsQualifiedName: an optional DNS subdomain prefix and '/', then
\* a name of 1 to 63 characters matching the pattern.
IsQualifiedName(cs) ==
    LET slashes == {i \in DOMAIN cs : cs[i] = "/"}
    IN  CASE slashes = {} -> Len(cs) <= 63 /\ MatchesQualifiedName(cs)
          [] Cardinality(slashes) = 1 ->
                LET at     == CHOOSE i \in slashes : TRUE
                    prefix == SubSeq(cs, 1, at - 1)
                    name   == SubSeq(cs, at + 1, Len(cs))
                IN  /\ IsDNS1123Subdomain(prefix)
                    /\ Len(name) <= 63
                    /\ MatchesQualifiedName(name)
          [] OTHER -> FALSE

\* validation.IsValidLabelValue: at most 63 characters; empty or matching
\* the pattern.
IsValidLabelValue(cs) ==
    /\ Len(cs) <= 63
    /\ cs = <<>> \/ MatchesQualifiedName(cs)

\* validateLabelKey: a label key is a qualified name.
validateLabelKey(key) == IsQualifiedName(Chars(key))

\* validateLabelValue: a label value is empty or a name of at most 63
\* characters.
validateLabelValue(value) == IsValidLabelValue(Chars(value))

\* labels.NewRequirement: the key is a label key, the operator accepts the
\* number of values, and every value is a label value.
RequirementValid(key, op, values) ==
    /\ validateLabelKey(key)
    /\ CASE op \in {"in", "notin"}   -> Len(values) > 0
         [] op = "="                  -> Len(values) = 1
         [] op \in {"exists", "!"}    -> Len(values) = 0
         [] OTHER                     -> FALSE
    /\ \A i \in DOMAIN values : validateLabelValue(values[i])

\* The selection operator of a LabelSelectorRequirement operator, Nil if invalid.
SelectionOperator(operator) ==
    CASE operator = "In"           -> "in"
      [] operator = "NotIn"        -> "notin"
      [] operator = "Exists"       -> "exists"
      [] operator = "DoesNotExist" -> "!"
      [] OTHER                     -> Nil

LabelSelectorAsSelector(ps) ==
    IF ps = <<>> THEN [nothing |-> TRUE, requirements |-> {}, err |-> Nil]
    ELSE LET sel == ps[1]
             fromLabels ==
                 {[key |-> kv[1], op |-> "=", values |-> <<kv[2]>>] : kv \in sel.matchLabels}
             fromExprs ==
                 {[key |-> sel.matchExpressions[i].key,
                   op |-> SelectionOperator(sel.matchExpressions[i].operator),
                   values |-> sel.matchExpressions[i].values] :
                  i \in DOMAIN sel.matchExpressions}
             bad == \/ \E r \in fromExprs : r.op = Nil
                    \/ \E r \in fromLabels \cup fromExprs :
                          r.op # Nil /\ ~RequirementValid(r.key, r.op, r.values)
         IN  IF bad THEN [nothing |-> FALSE, requirements |-> {}, err |-> "invalid label selector"]
             ELSE [nothing |-> FALSE, requirements |-> fromLabels \cup fromExprs, err |-> Nil]

\* labels.Requirement.Matches
RequirementMatches(r, labels) ==
    LET hasValue == LabelValue(labels, r.key) \in {r.values[i] : i \in DOMAIN r.values}
    IN  CASE r.op \in {"in", "="} -> HasLabel(labels, r.key) /\ hasValue
          [] r.op = "notin"       -> ~HasLabel(labels, r.key) \/ ~hasValue
          [] r.op = "exists"      -> HasLabel(labels, r.key)
          [] r.op = "!"           -> ~HasLabel(labels, r.key)

\* labels.Selector.Matches: Nothing matches no label set, otherwise every requirement must.
SelectorMatches(selector, labels) ==
    /\ ~selector.nothing
    /\ \A r \in selector.requirements : RequirementMatches(r, labels)

(***************************************************************************)
(* Candidates: cliresource.Info with its unstructured object.  convertible *)
(* says whether the object decodes into the typed struct of its kind.      *)
(***************************************************************************)
CrossVersionObjectReference(apiVersion, kind, name) ==
    [apiVersion |-> apiVersion, kind |-> kind, name |-> name]

NoObject ==
    [convertible |-> TRUE, phase |-> "", completionTime |-> <<>>, active |-> 0,
     volume |-> PersistentVolume(<<>>, Nil, "", Nil, <<>>),
     selector |-> <<>>,
     scaleTargetRef |-> CrossVersionObjectReference(<<>>, "", "")]

Info(kind, name, ns, object) ==
    [kind |-> kind, name |-> name, namespace |-> ns, object |-> object]

ObjectToPod(obj) ==
    IF obj.convertible THEN [pod |-> obj, err |-> Nil]
    ELSE [pod |-> NoObject, err |-> "cannot convert"]

ObjectToPersistentVolume(obj) ==
    IF obj.convertible THEN [volume |-> obj.volume, err |-> Nil]
    ELSE [volume |-> NoObject.volume, err |-> "cannot convert"]

ObjectToJob(obj) ==
    IF obj.convertible THEN [job |-> obj, err |-> Nil]
    ELSE [job |-> NoObject, err |-> "cannot convert"]

ObjectToPodDisruptionBudget(obj) ==
    IF obj.convertible THEN [pdb |-> obj, err |-> Nil]
    ELSE [pdb |-> NoObject, err |-> "cannot convert"]

ObjectToHorizontalPodAutoscaler(obj) ==
    IF obj.convertible THEN [hpa |-> obj, err |-> Nil]
    ELSE [hpa |-> NoObject, err |-> "cannot convert"]

(***************************************************************************)
(* The resource client.  A cluster is what the API server holds when a     *)
(* request reaches it; failing names the requests that fail.               *)
(***************************************************************************)
InNamespace(list, ns) ==
    SelectSeq(list, LAMBDA o : ns = NamespaceAll \/ o.namespace = ns)

ListPods(cluster, ns) ==
    IF "pods" \in cluster.failing THEN [items |-> <<>>, err |-> "list pods"]
    ELSE [items |-> InNamespace(cluster.pods, ns), err |-> Nil]

ListReplicaSets(cluster, ns) ==
    IF "replicasets" \in cluster.failing THEN [items |-> <<>>, err |-> "list replicasets"]
    ELSE [items |-> InNamespace(cluster.replicaSets, ns), err |-> Nil]

ListServiceAccounts(cluster, ns) ==
    IF "serviceaccounts" \in cluster.failing
    THEN [items |-> <<>>, err |-> "list serviceaccounts"]
    ELSE [items |-> InNamespace(cluster.serviceAccounts, ns), err |-> Nil]

ListPersistentVolumeClaims(cluster, ns) ==
    IF "persistentvolumeclaims" \in cluster.failing
    THEN [items |-> <<>>, err |-> "list persistentvolumeclaims"]
    ELSE [items |-> InNamespace(cluster.persistentVolumeClaims, ns), err |-> Nil]

\* schema.ParseGroupVersion: an apiVersion is its "/"-separated segments;
\* "", "version" and "group/version" parse, more segments do not.
ParseGroupVersion(apiVersion) == Len(apiVersion) <= 2

\* The GroupVersion schema.ParseGroupVersion returns: the empty one for ""
\* and "/" (and with the error), the version alone for one segment, group
\* and version for two.
GroupVersion(apiVersion) ==
    IF apiVersion = <<>> \/ apiVersion = <<"", "">> \/ Len(apiVersion) > 2
    THEN [group |-> "", version |-> ""]
    ELSE IF Len(apiVersion) = 1 THEN [group |-> "", version |-> apiVersion[1]]
    ELSE [group |-> apiVersion[1], version |-> apiVersion[2]]

\* strings.ToLower on a sequence of characters.
ToLower(cs) ==
    [i \in DOMAIN cs |->
        IF \E j \in DOMAIN UpperCase : cs[i] = UpperCase[j]
        THEN LowerCase[CHOOSE j \in DOMAIN UpperCase : cs[i] = UpperCase[j]]
        ELSE cs[i]]

\* strings.HasSuffix on sequences of characters.
HasSuffix(cs, suffix) ==
    /\ Len(suffix) <= Len(cs)
    /\ SubSeq(cs, Len(cs) - Len(suffix) + 1, Len(cs)) = suffix

\* apimeta.UnsafeGuessKindToResource, the plural resource.  For the empty
\* kind it is the empty GroupVersionResource, group and version dropped.
\* Otherwise group and version are those of gv and the resource is the kind
\* in lower case, unchanged after "endpoints", with "es" after s, with
\* "ies" for a final y, and with "s" otherwise.
UnsafeGuessKindToResource(gv, kind) ==
    LET Plural(singular) ==
            IF HasSuffix(singular, <<"e", "n", "d", "p", "o", "i", "n", "t", "s">>)
            THEN singular
            ELSE IF singular[Len(singular)] = "s" THEN singular \o <<"e", "s">>
            ELSE IF singular[Len(singular)] = "y"
            THEN SubSeq(singular, 1, Len(singular) - 1) \o <<"i", "e", "s">>
            ELSE singular \o <<"s">>
    IN  IF kind = ""
        THEN [group |-> "", version |-> "", resource |-> <<>>]
        ELSE [group |-> gv.group, version |-> gv.version,
              resource |-> Plural(ToLower(Chars(kind)))]

\* The object a get request addresses: the resource guessed from apiVersion
\* and kind, the name and the namespace.
ObjectKey(apiVersion, kind, name, ns) ==
    LET Keyed(gvr) ==
            [group |-> gvr.group, version |-> gvr.version, resource |-> gvr.resource,
             name |-> name, namespace |-> ns]
    IN  Keyed(UnsafeGuessKindToResource(GroupVersion(apiVersion), kind))

\* A variant that takes every failed get for not-found.
GetUnstructuredLenient(cluster, ctxDone, apiVersion, kind, name, ns) ==
    IF ~ParseGroupVersion(apiVersion)
    THEN [u |-> <<>>, err |-> "unexpected GroupVersion string", gets |-> 0]
    ELSE LET key == ObjectKey(apiVersion, kind, name, ns)
         IN  IF ~ctxDone /\ "get" \notin cluster.failing /\ key \in cluster.objects
             THEN [u |-> <<key>>, err |-> Nil, gets |-> 1]
             ELSE [u |-> <<>>, err |-> Nil, gets |-> 1]

\* ctxDone: the context of the request is cancelled.  u is <<>> for a nil
\* object; gets counts the get requests sent.
GetUnstructured(cluster, ctxDone, apiVersion, kind, name, ns) ==
    IF ~ParseGroupVersion(apiVersion)
    THEN [u |-> <<>>, err |-> "unexpected GroupVersion string", gets |-> 0]
    ELSE LET key == ObjectKey(apiVersion, kind, name, ns)
         IN  CASE ctxDone ->
                    [u |-> <<>>, err |-> "context canceled", gets |-> 1]
               [] ~ctxDone /\ "get" \in cluster.failing ->
                    [u |-> <<>>, err |-> "get failed", gets |-> 1]
               [] ~ctxDone /\ "get" \notin cluster.failing /\ key \in cluster.objects ->
                    [u |-> <<key>>, err |-> Nil, gets |-> 1]
               [] OTHER ->
                    [u |-> <<>>, err |-> Nil, gets |-> 1]

(***************************************************************************)
(* The determiner.                                                         *)
(***************************************************************************)
Determiner(usedConfigMaps, usedSecrets, usedPersistentVolumeClaims, pods, replicaSets, persistentVolumeClaims) ==
    [usedConfigMaps |-> usedConfigMaps, usedSecrets |-> usedSecrets,
     usedPersistentVolumeClaims |-> usedPersistentVolumeClaims,
     pods |-> pods, replicaSets |-> replicaSets,
     persistentVolumeClaims |-> persistentVolumeClaims]

\* &determiner{resourceClient: resourceClient}: every other field is its zero value.
EmptyDeterminer == Determiner({}, {}, {}, <<>>, <<>>, <<>>)

Elems(seq) == {seq[i] : i \in DOMAIN seq}

\* The names the loops over containers add to usedConfigMaps.
ConfigMapsOfContainers(containers) ==
    UNION {
        {ef.configMapRef : ef \in {x \in Elems(c.envFrom) : x.configMapRef # Nil}}
        \cup
        {e.valueFrom[1].configMapKeyRef :
            e \in {x \in Elems(c.env) :
                     x.valueFrom # <<>> /\ x.valueFrom[1].configMapKeyRef # Nil}}
        : c \in Elems(containers)}

\* The names the loops over volumes add to usedConfigMaps.
ConfigMapsOfVolumes(volumes) ==
    UNION {
        (IF v.configMap # Nil THEN {v.configMap} ELSE {})
        \cup
        (IF v.projected # <<>>
         THEN {src.configMap : src \in {x \in Elems(v.projected[1]) : x.configMap # Nil}}
         ELSE {})
        : v \in Elems(volumes)}

\* A variant that scans the init containers of the Pods as well.
detectUsedConfigMapsWithInit(dd) ==
    UNION {ConfigMapsOfContainers(pod.spec.initContainers)
           \cup ConfigMapsOfContainers(pod.spec.containers)
           \cup ConfigMapsOfVolumes(pod.spec.volumes) : pod \in Elems(dd.pods)}
    \cup
    UNION {ConfigMapsOfContainers(rs.template.containers)
           \cup ConfigMapsOfVolumes(rs.template.volumes) : rs \in Elems(dd.replicaSets)}

detectUsedConfigMaps(dd) ==
    UNION {ConfigMapsOfContainers(pod.spec.containers)
           \cup ConfigMapsOfVolumes(pod.spec.volumes) : pod \in Elems(dd.pods)}
    \cup
    UNION {ConfigMapsOfContainers(rs.template.containers)
           \cup ConfigMapsOfVolumes(rs.template.volumes) : rs \in Elems(dd.replicaSets)}

\* The names the loops over containers add to usedSecrets.
SecretsOfContainers(containers) ==
    UNION {
        {ef.secretRef : ef \in {x \in Elems(c.envFrom) : x.secretRef # Nil}}
        \cup
        {e.valueFrom[1].secretKeyRef :
            e \in {x \in Elems(c.env) :
                     x.valueFrom # <<>> /\ x.valueFrom[1].secretKeyRef # Nil}}
        : c \in Elems(containers)}

\* The names the loops over volumes add to usedSecrets.
SecretsOfVolumes(volumes) ==
    UNION {
        (IF v.secret # Nil THEN {v.secret} ELSE {})
        \cup
        (IF v.projected # <<>>
         THEN {src.secret : src \in {x \in Elems(v.projected[1]) : x.secret # Nil}}
         ELSE {})
        : v \in Elems(volumes)}

detectUsedSecrets(dd, accounts) ==
    UNION {Elems(pod.spec.imagePullSecrets)
           \cup SecretsOfContainers(pod.spec.containers)
           \cup SecretsOfVolumes(pod.spec.volumes) : pod \in Elems(dd.pods)}
    \cup
    UNION {SecretsOfContainers(rs.template.containers)
           \cup SecretsOfVolumes(rs.template.volumes) : rs \in Elems(dd.replicaSets)}
    \cup
    UNION {Elems(sa.secrets) : sa \in Elems(accounts)}

detectUsedPersistentVolumeClaims(dd) ==
    UNION {{v.persistentVolumeClaim :
               v \in {x \in Elems(pod.spec.volumes) : x.persistentVolumeClaim # Nil}}
           : pod \in Elems(dd.pods)}

\* The kinds New's visit of the candidates saw.
\* A variant that wants every kind of collateral.
ReapKindsEager(r) ==
    [configMaps             |-> TRUE,
     secrets                |-> TRUE,
     persistentVolumes      |-> TRUE,
     persistentVolumeClaims |-> TRUE,
     podDisruptionBudgets   |-> TRUE]

ReapKinds(r) ==
    LET kinds == {r[i].kind : i \in DOMAIN r}
    IN  [configMaps             |-> KindConfigMap \in kinds,
         secrets                |-> KindSecret \in kinds,
         persistentVolumes      |-> KindPersistentVolume \in kinds,
         persistentVolumeClaims |-> KindPersistentVolumeClaim \in kinds,
         podDisruptionBudgets   |-> KindPodDisruptionBudget \in kinds]

NoReap == ReapKinds(<<>>)

\* A list request New sent and the error it came back with.
Request(what, e) == [request |-> what, err |-> e]

\* cliresource.Result at the time of a visit: the objects Visit hands to the
\* callback and the error it returns (a list request of the builder failed).
Result(objects, e) == [infos |-> objects, err |-> e]

\* The visit of New before its first list request: what it has listed and
\* the errors of its list requests.
NoVisit == [infos |-> <<>>, errs |-> <<>>]

\* What a visit returns: nil, or the error of a list request.
VisitErrors == {Nil, "list failed"}

\* New(resourceClient, r, namespace): the determiner, the error, the list
\* requests issued and the reap flags.  d is EmptyDeterminer when err # Nil
\* (New returns no determiner then).
New(cluster, r, ns) ==
    LET rp       == ReapKinds(r.infos)
        needPods == \/ rp.configMaps \/ rp.secrets
                    \/ rp.persistentVolumeClaims \/ rp.podDisruptionBudgets
        needRSs  == rp.configMaps \/ rp.secrets
        needPVCs == rp.persistentVolumes
        needSAs  == rp.secrets
        pods == ListPods(cluster, ns)
        rss  == ListReplicaSets(cluster, ns)
        pvcs == ListPersistentVolumeClaims(cluster, ns)
        sal  == ListServiceAccounts(cluster, ns)
        c1 == IF needPods THEN <<Request("pods", pods.err)>> ELSE <<>>
        c2 == IF needRSs THEN Append(c1, Request("replicasets", rss.err)) ELSE c1
        c3 == IF needPVCs THEN Append(c2, Request("persistentvolumeclaims", pvcs.err))
              ELSE c2
        c4 == IF needSAs THEN Append(c3, Request("serviceaccounts", sal.err)) ELSE c3
        d1 == IF needPods THEN [EmptyDeterminer EXCEPT !.pods = pods.items]
              ELSE EmptyDeterminer
        d2 == IF needRSs THEN [d1 EXCEPT !.replicaSets = rss.items] ELSE d1
        d3 == IF needPVCs THEN [d2 EXCEPT !.persistentVolumeClaims = pvcs.items] ELSE d2
        d4 == IF rp.configMaps
              THEN [d3 EXCEPT !.usedConfigMaps = detectUsedConfigMaps(d3)] ELSE d3
        d5 == IF rp.secrets
              THEN [d4 EXCEPT !.usedSecrets = detectUsedSecrets(d4, sal.items)] ELSE d4
        d6 == IF rp.persistentVolumeClaims
              THEN [d5 EXCEPT !.usedPersistentVolumeClaims =
                                  detectUsedPersistentVolumeClaims(d5)]
              ELSE d5
        Failed(e, c) ==
            [d |-> EmptyDeterminer, err |-> e, calls |-> c, reap |-> rp, sas |-> <<>>]
    IN  IF r.err # Nil THEN Failed(r.err, <<>>)
        ELSE IF needPods /\ pods.err # Nil THEN Failed(pods.err, c1)
        ELSE IF needRSs /\ rss.err # Nil THEN Failed(rss.err, c2)
        ELSE IF needPVCs /\ pvcs.err # Nil THEN Failed(pvcs.err, c3)
        ELSE IF needSAs /\ sal.err # Nil THEN Failed(sal.err, c4)
        ELSE [d |-> d6, err |-> Nil, calls |-> c4, reap |-> rp,
              sas |-> IF needSAs THEN sal.items ELSE <<>>]

\* What a determineDeletion function returns; gets counts the get requests it sent.
Decision(ok, e, gets) == [ok |-> ok, err |-> e, gets |-> gets]

\* A variant that keeps only the Pods that have finished.
determineDeletionPodFinished(dd, info) ==
    LET c == ObjectToPod(info.object)
    IN  IF c.err # Nil THEN Decision(FALSE, c.err, 0)
        ELSE Decision(c.pod.phase \in {"Succeeded", "Failed"}, Nil, 0)

determineDeletionPod(dd, info) ==
    LET c == ObjectToPod(info.object)
    IN  IF c.err # Nil THEN Decision(FALSE, c.err, 0)
        ELSE Decision(c.pod.phase # PodRunning, Nil, 0)

\* A variant of the index expression that enters the key it is asked for.
MapIndexInserting(m, key) == [ok |-> key \in m, m |-> m \cup {key}]

\* Go's index expression '_, ok := m[key]' on a map used as a set (nil or
\* not): whether the key is present, and the map after it, which is the map
\* before it.
MapIndex(m, key) == [ok |-> key \in m, m |-> m]

determineDeletionConfigMap(dd, info) ==
    Decision(~MapIndex(dd.usedConfigMaps, info.name).ok, Nil, 0)

determineDeletionSecret(dd, info) ==
    Decision(~MapIndex(dd.usedSecrets, info.name).ok, Nil, 0)

\* The loop over d.persistentVolumeClaims from position i, with its early return.
RECURSIVE SatisfiesSomeClaimFrom(_, _, _)
SatisfiesSomeClaimFrom(volume, claims, i) ==
    IF i > Len(claims) THEN FALSE
    ELSE IF CheckVolumeSatisfyClaim(volume, claims[i]) THEN TRUE
    ELSE SatisfiesSomeClaimFrom(volume, claims, i + 1)

\* A variant that looks at the first claim of the snapshot only.
determineDeletionPersistentVolumeFirstClaim(dd, info) ==
    LET c == ObjectToPersistentVolume(info.object)
    IN  IF c.err # Nil THEN Decision(FALSE, c.err, 0)
        ELSE IF /\ dd.persistentVolumeClaims # <<>>
                /\ CheckVolumeSatisfyClaim(c.volume, dd.persistentVolumeClaims[1])
             THEN Decision(FALSE, Nil, 0)
             ELSE Decision(TRUE, Nil, 0)

determineDeletionPersistentVolume(dd, info) ==
    LET c == ObjectToPersistentVolume(info.object)
    IN  IF c.err # Nil THEN Decision(FALSE, c.err, 0)
        ELSE IF SatisfiesSomeClaimFrom(c.volume, dd.persistentVolumeClaims, 1)
             THEN Decision(FALSE, Nil, 0)
             ELSE Decision(TRUE, Nil, 0)

determineDeletionPersistentVolumeClaim(dd, info) ==
    Decision(~MapIndex(dd.usedPersistentVolumeClaims, info.name).ok, Nil, 0)

\* A variant that takes a Job with running pods as unfinished.
determineDeletionJobInactive(dd, info) ==
    LET c == ObjectToJob(info.object)
    IN  IF c.err # Nil THEN Decision(FALSE, c.err, 0)
        ELSE Decision(c.job.completionTime # <<>> /\ c.job.active = 0, Nil, 0)

determineDeletionJob(dd, info) ==
    LET c == ObjectToJob(info.object)
    IN  IF c.err # Nil THEN Decision(FALSE, c.err, 0)
        ELSE Decision(c.job.completionTime # <<>>, Nil, 0)

\* The loop over d.pods from position i, with its early return.
RECURSIVE MatchesSomePodFrom(_, _, _)
MatchesSomePodFrom(selector, pods, i) ==
    IF i > Len(pods) THEN FALSE
    ELSE IF SelectorMatches(selector, pods[i].labels) THEN TRUE
    ELSE MatchesSomePodFrom(selector, pods, i + 1)

\* A variant that converts the matchLabels of the selector only.
determineUsedPodDisruptionBudgetLabelsOnly(dd, pdb) ==
    LET selector == LabelSelectorAsSelector(
                        IF pdb.selector = <<>> THEN <<>>
                        ELSE <<[pdb.selector[1] EXCEPT !.matchExpressions = <<>>]>>)
    IN  IF selector.err # Nil THEN [used |-> FALSE, err |-> selector.err]
        ELSE [used |-> MatchesSomePodFrom(selector, dd.pods, 1), err |-> Nil]

determineUsedPodDisruptionBudget(dd, pdb) ==
    LET selector == LabelSelectorAsSelector(pdb.selector)
    IN  IF selector.err # Nil THEN [used |-> FALSE, err |-> selector.err]
        ELSE [used |-> MatchesSomePodFrom(selector, dd.pods, 1), err |-> Nil]

\* A variant that takes a selector it cannot convert for one no pod matches.
determineDeletionPodDisruptionBudgetUnchecked(dd, info) ==
    LET c == ObjectToPodDisruptionBudget(info.object)
    IN  IF c.err # Nil THEN Decision(FALSE, c.err, 0)
        ELSE LET u == determineUsedPodDisruptionBudget(dd, c.pdb)
             IN  Decision(~u.used, Nil, 0)

determineDeletionPodDisruptionBudget(dd, info) ==
    LET c == ObjectToPodDisruptionBudget(info.object)
    IN  IF c.err # Nil THEN Decision(FALSE, c.err, 0)
        ELSE LET u == determineUsedPodDisruptionBudget(dd, c.pdb)
             IN  IF u.err # Nil THEN Decision(FALSE, u.err, 0)
                 ELSE Decision(~u.used, Nil, 0)

\* A variant that looks the scale target up in the default namespace.
determineDeletionHorizontalPodAutoscalerDefaultNamespace(cluster, ctxDone, info) ==
    LET c == ObjectToHorizontalPodAutoscaler(info.object)
    IN  IF c.err # Nil THEN Decision(FALSE, c.err, 0)
        ELSE LET ref == c.hpa.scaleTargetRef
                 Answered(g) == IF g.err # Nil THEN Decision(FALSE, g.err, g.gets)
                                ELSE Decision(g.u = <<>>, Nil, g.gets)
             IN  Answered(GetUnstructured(cluster, ctxDone, ref.apiVersion, ref.kind,
                                          ref.name, "default"))

determineDeletionHorizontalPodAutoscaler(cluster, ctxDone, info) ==
    LET c == ObjectToHorizontalPodAutoscaler(info.object)
    IN  IF c.err # Nil THEN Decision(FALSE, c.err, 0)
        ELSE LET ref == c.hpa.scaleTargetRef
                 Answered(g) == IF g.err # Nil THEN Decision(FALSE, g.err, g.gets)
                                ELSE Decision(g.u = <<>>, Nil, g.gets)
             IN  Answered(GetUnstructured(cluster, ctxDone, ref.apiVersion, ref.kind,
                                          ref.name, info.namespace))

\* A variant that skips a kind it has no rule for.
DetermineDeletionSkipUnknown(dd, cluster, ctxDone, info) ==
    CASE info.kind = KindPod -> determineDeletionPod(dd, info)
      [] info.kind = KindConfigMap -> determineDeletionConfigMap(dd, info)
      [] info.kind = KindSecret -> determineDeletionSecret(dd, info)
      [] info.kind = KindPersistentVolume -> determineDeletionPersistentVolume(dd, info)
      [] info.kind = KindPersistentVolumeClaim ->
             determineDeletionPersistentVolumeClaim(dd, info)
      [] info.kind = KindJob -> determineDeletionJob(dd, info)
      [] info.kind = KindPodDisruptionBudget ->
             determineDeletionPodDisruptionBudget(dd, info)
      [] info.kind = KindHorizontalPodAutoscaler ->
             determineDeletionHorizontalPodAutoscaler(cluster, ctxDone, info)
      [] OTHER -> Decision(FALSE, Nil, 0)

DetermineDeletion(dd, cluster, ctxDone, info) ==
    CASE info.kind = KindPod -> determineDeletionPod(dd, info)
      [] info.kind = KindConfigMap -> determineDeletionConfigMap(dd, info)
      [] info.kind = KindSecret -> determineDeletionSecret(dd, info)
      [] info.kind = KindPersistentVolume -> determineDeletionPersistentVolume(dd, info)
      [] info.kind = KindPersistentVolumeClaim ->
             determineDeletionPersistentVolumeClaim(dd, info)
      [] info.kind = KindJob -> determineDeletionJob(dd, info)
      [] info.kind = KindPodDisruptionBudget ->
             determineDeletionPodDisruptionBudget(dd, info)
      [] info.kind = KindHorizontalPodAutoscaler ->
             determineDeletionHorizontalPodAutoscaler(cluster, ctxDone, info)
      [] OTHER -> Decision(FALSE, "unsupported kind", 0)

(***************************************************************************)
(* Bounded inputs.                                                         *)
(***************************************************************************)
MaxWorkloads == 1   \* Pods, ReplicaSets and ServiceAccounts in a cluster, together
MaxClaims    == 2   \* PersistentVolumeClaims in a cluster

SeqsOfLen(S, n) == [1..n -> S]

EmptySpec == PodSpec(<<>>, <<>>, <<>>, <<>>)
PlainContainer == Container(<<EnvFromSource(Nil, Nil)>>, <<EnvVar(<<>>)>>)
PlainVolume == Volume(Nil, Nil, <<>>, Nil)

RefShapes == {"cmEnvFrom", "cmKeyRef", "cmVolume", "cmProjected",
              "secEnvFrom", "secKeyRef", "secVolume", "secProjected"}

\* A pod spec holding one reference to the name n, of the given shape, behind
\* a container, an environment variable, a volume or a source that holds none.
SpecWith(shape, n) ==
    CASE shape = "cmEnvFrom" ->
           PodSpec(<<>>, <<Container(<<EnvFromSource(n, Nil)>>, <<>>)>>, <<>>, <<>>)
      [] shape = "cmKeyRef" ->
           PodSpec(<<>>, <<PlainContainer,
                           Container(<<>>, <<EnvVar(<<EnvVarSource(Nil, Nil)>>),
                                             EnvVar(<<EnvVarSource(n, Nil)>>)>>)>>,
                   <<>>, <<>>)
      [] shape = "cmVolume" ->
           PodSpec(<<>>, <<>>, <<Volume(n, Nil, <<>>, Nil)>>, <<>>)
      [] shape = "cmProjected" ->
           PodSpec(<<>>, <<>>,
                   <<PlainVolume,
                     Volume(Nil, Nil, <<<<VolumeProjection(Nil, Nil),
                                          VolumeProjection(n, Nil)>>>>, Nil)>>, <<>>)
      [] shape = "secEnvFrom" ->
           PodSpec(<<>>, <<PlainContainer, Container(<<EnvFromSource(Nil, n)>>, <<>>)>>,
                   <<>>, <<>>)
      [] shape = "secKeyRef" ->
           PodSpec(<<>>, <<Container(<<>>, <<EnvVar(<<EnvVarSource(Nil, n)>>)>>)>>,
                   <<>>, <<>>)
      [] shape = "secVolume" ->
           PodSpec(<<>>, <<>>, <<PlainVolume, Volume(Nil, n, <<>>, Nil)>>, <<>>)
      [] shape = "secProjected" ->
           PodSpec(<<>>, <<>>,
                   <<Volume(Nil, Nil, <<<<VolumeProjection(Nil, n)>>>>, Nil)>>, <<>>)
      [] shape = "imagePull" -> PodSpec(<<>>, <<>>, <<>>, <<n>>)
      [] shape = "pvcVolume" ->
           PodSpec(<<>>, <<>>, <<PlainVolume, Volume(Nil, Nil, <<>>, n)>>, <<>>)
      [] shape = "init" ->
           PodSpec(<<Container(<<EnvFromSource(n, Nil)>>,
                               <<EnvVar(<<EnvVarSource(Nil, n)>>)>>)>>,
                   <<PlainContainer>>, <<PlainVolume>>, <<>>)
      [] shape = "volumes" ->
           PodSpec(<<>>, <<PlainContainer>>,
                   <<Volume(n, Nil, <<>>, Nil), Volume(Nil, n, <<>>, Nil),
                     Volume(Nil, Nil, <<>>, n)>>, <<>>)

PodUniverse ==
    {Pod("default", {}, SpecWith(s, "a")) :
        s \in RefShapes \cup {"imagePull", "pvcVolume", "init"}}
    \cup {Pod("default", {}, SpecWith("volumes", "b")),
          Pod("default", {<<"app", "foo">>}, EmptySpec),
          Pod("default", {<<"app", "bar">>, <<"tier", "db">>}, EmptySpec),
          Pod("other", {<<"app", "foo">>}, SpecWith("volumes", "a"))}

ReplicaSetUniverse ==
    {ReplicaSet("default", SpecWith(s, "a")) : s \in RefShapes \cup {"imagePull"}}
    \cup {ReplicaSet("other", SpecWith("secEnvFrom", "a"))}

ServiceAccountUniverse ==
    {ServiceAccount("default", <<"a">>), ServiceAccount("default", <<"b", "a">>),
     ServiceAccount("other", <<"a">>)}

ClaimUniverse ==
    {PersistentVolumeClaim("default", <<2>>, Nil, "standard", Nil, <<"ReadWriteOnce">>),
     PersistentVolumeClaim("default", <<4>>, Nil, "standard", Nil, <<"ReadWriteOnce">>),
     PersistentVolumeClaim("default", <<2>>, "slow", "standard", Nil, <<>>),
     PersistentVolumeClaim("default", <<2>>, Nil, Nil, PersistentVolumeBlock,
                           <<"ReadWriteOnce">>),
     PersistentVolumeClaim("other", <<2>>, Nil, "standard", PersistentVolumeFilesystem,
                           <<"ReadWriteOnce", "ReadWriteMany">>)}

Cluster(pods, replicaSets, serviceAccounts, persistentVolumeClaims, objects, failing) ==
    [pods |-> pods, replicaSets |-> replicaSets, serviceAccounts |-> serviceAccounts,
     persistentVolumeClaims |-> persistentVolumeClaims, objects |-> objects,
     failing |-> failing]

EmptyCluster == Cluster(<<>>, <<>>, <<>>, <<>>, {}, {})

\* Clusters of at most MaxWorkloads workload objects and no claim.
WorkloadClusters ==
    UNION {
        {Cluster(p, r, s, <<>>, {}, {}) :
            p \in SeqsOfLen(PodUniverse, n[1]),
            r \in SeqsOfLen(ReplicaSetUniverse, n[2]),
            s \in SeqsOfLen(ServiceAccountUniverse, n[3])}
        : n \in {m \in (0..MaxWorkloads) \X (0..MaxWorkloads) \X (0..MaxWorkloads) :
                    m[1] + m[2] + m[3] <= MaxWorkloads}}

\* Clusters of at most MaxClaims claims and no workload.
ClaimClusters ==
    UNION {{Cluster(<<>>, <<>>, <<>>, c, {}, {}) : c \in SeqsOfLen(ClaimUniverse, n)}
           : n \in 0..MaxClaims}

\* Clusters one of whose list requests fails.
FailingClusters ==
    {Cluster(<<>>, <<>>, <<>>, <<>>, {}, {f}) :
        f \in {"pods", "replicasets", "persistentvolumeclaims", "serviceaccounts"}}

(***************************************************************************)
(* Candidates.                                                             *)
(***************************************************************************)
PodPhases == {"", "Pending", "Running", "Succeeded", "Failed", "Unknown"}

Unconvertible == [NoObject EXCEPT !.convertible = FALSE]

PodCandidates ==
    {Info(KindPod, "a", "default", [NoObject EXCEPT !.phase = ph]) : ph \in PodPhases}
    \cup {Info(KindPod, "a", "default", [Unconvertible EXCEPT !.phase = "Failed"])}

NamedCandidates ==
    {Info(k, n, "default", NoObject) :
        k \in {KindConfigMap, KindSecret, KindPersistentVolumeClaim}, n \in {"a", "b"}}

JobCandidates ==
    {Info(KindJob, "a", "default",
          [NoObject EXCEPT !.completionTime = t, !.active = n]) :
        t \in {<<>>, <<0>>, <<7>>}, n \in {0, 1}}
    \cup {Info(KindJob, "a", "default",
               [Unconvertible EXCEPT !.completionTime = <<7>>])}

VolumeUniverse ==
    {PersistentVolume(<<4>>, Nil, "standard", Nil, <<"ReadWriteOnce">>),
     PersistentVolume(<<6>>, Nil, "standard", PersistentVolumeFilesystem,
                      <<"ReadWriteMany", "ReadWriteOnce">>),
     PersistentVolume(<<4>>, "slow", "", Nil, <<"ReadWriteOnce">>),
     PersistentVolume(<<4>>, Nil, "", PersistentVolumeBlock, <<"ReadWriteOnce">>),
     PersistentVolume(<<2>>, Nil, "standard", Nil, <<"ReadWriteOnce">>),
     PersistentVolume(<<>>, Nil, "standard", Nil, <<"ReadWriteOnce">>)}

VolumeCandidates ==
    {Info(KindPersistentVolume, "a", "", [NoObject EXCEPT !.volume = v]) :
        v \in VolumeUniverse}
    \cup {Info(KindPersistentVolume, "a", "",
               [Unconvertible EXCEPT !.volume = CHOOSE v \in VolumeUniverse : TRUE])}

MatchLabelsSelector(k, v) == <<LabelSelector({<<k, v>>}, <<>>)>>
MatchInSelector(k, v) ==
    <<LabelSelector({}, <<LabelSelectorRequirement(k, "In", <<v>>)>>)>>

LabelPairs == {<<"app", "foo">>, <<"app", "baz">>, <<"tier", "db">>}

SelectorUniverse ==
    {<<>>, <<LabelSelector({}, <<>>)>>}
    \cup {MatchLabelsSelector(kv[1], kv[2]) : kv \in LabelPairs}
    \cup {MatchInSelector(kv[1], kv[2]) : kv \in LabelPairs}
    \cup {<<LabelSelector({}, <<LabelSelectorRequirement("app", "In", <<"baz", "bar">>)>>)>>,
          <<LabelSelector({}, <<LabelSelectorRequirement("app", "NotIn", <<"foo">>)>>)>>,
          <<LabelSelector({}, <<LabelSelectorRequirement("tier", "Exists", <<>>)>>)>>,
          <<LabelSelector({}, <<LabelSelectorRequirement("tier", "DoesNotExist", <<>>)>>)>>,
          <<LabelSelector({<<"app", "bar">>},
                          <<LabelSelectorRequirement("tier", "In", <<"db">>),
                            LabelSelectorRequirement("app", "NotIn", <<"foo">>)>>)>>,
          <<LabelSelector({}, <<LabelSelectorRequirement("app", "Equals", <<"foo">>)>>)>>,
          <<LabelSelector({}, <<LabelSelectorRequirement("app", "In", <<>>)>>)>>,
          <<LabelSelector({<<"app", "foo">>},
                          <<LabelSelectorRequirement("tier", "Exists", <<"db">>)>>)>>,
          <<LabelSelector({<<"a b", "foo">>}, <<>>)>>,
          <<LabelSelector({}, <<LabelSelectorRequirement("", "Exists", <<>>)>>)>>,
          <<LabelSelector({}, <<LabelSelectorRequirement("app", "In", <<"foo", "x y">>)>>)>>,
          <<LabelSelector({<<"app", "">>}, <<>>)>>,
          <<LabelSelector({<<"example.com/app", "foo">>}, <<>>)>>,
          <<LabelSelector({<<"Example.com/app", "foo">>}, <<>>)>>,
          <<LabelSelector({}, <<LabelSelectorRequirement("a/b/c", "Exists", <<>>)>>)>>,
          <<LabelSelector({}, <<LabelSelectorRequirement("-app", "Exists", <<>>)>>)>>,
          <<LabelSelector({<<"app", "app-">>}, <<>>)>>,
          <<LabelSelector({<<LongName, "foo">>}, <<>>)>>,
          <<LabelSelector({<<"app", LongName>>}, <<>>)>>}

BudgetCandidates ==
    {Info(KindPodDisruptionBudget, "a", "default", [NoObject EXCEPT !.selector = sel]) :
        sel \in SelectorUniverse}
    \cup {Info(KindPodDisruptionBudget, "a", "default", Unconvertible)}

TargetRefs ==
    {CrossVersionObjectReference(<<"apps", "v1">>, "Deployment", "web"),
     CrossVersionObjectReference(<<"v1">>, "ReplicationController", "web"),
     CrossVersionObjectReference(<<"apps", "v1", "beta">>, "Deployment", "web"),
     CrossVersionObjectReference(<<"apps", "v1">>, "deployment", "web"),
     CrossVersionObjectReference(<<"", "v1">>, "ReplicationController", "web"),
     CrossVersionObjectReference(<<"apps", "v1">>, "", "web")}

AutoscalerCandidates ==
    {Info(KindHorizontalPodAutoscaler, "a", ns, [NoObject EXCEPT !.scaleTargetRef = ref]) :
        ns \in {"default", "other"}, ref \in TargetRefs}
    \cup {Info(KindHorizontalPodAutoscaler, "a", "default",
               [Unconvertible EXCEPT !.scaleTargetRef =
                   CrossVersionObjectReference(<<"apps", "v1">>, "Deployment", "web")])}

OtherCandidates == {Info("Deployment", "web", "default", NoObject)}

Candidates ==
    PodCandidates \cup NamedCandidates \cup JobCandidates \cup VolumeCandidates
    \cup BudgetCandidates \cup AutoscalerCandidates \cup OtherCandidates

\* The clusters a lookup of a scale-target reference meets.
LookupClusters ==
    {Cluster(<<>>, <<>>, <<>>, <<>>, o, f) :
        o \in {{}, {ObjectKey(<<"apps", "v1">>, "Deployment", "web", "default")},
               {ObjectKey(<<"apps", "v1">>, "Deployment", "web", "other"),
                ObjectKey(<<"v1">>, "ReplicationController", "web", "default")}},
        f \in {{}, {"get"}}}

(***************************************************************************)
(* The runner's state before the command starts.                           *)
(***************************************************************************)
\* The kinds of the resource types a command names in args[0]: those of the
\* workloads (po,cm,hpa,no,pdb), or those of the storage (secret,pv,pvc).
WorkloadTypes ==
    {KindPod, KindConfigMap, KindHorizontalPodAutoscaler, "Node", KindPodDisruptionBudget}

StorageTypes == {KindSecret, KindPersistentVolume, KindPersistentVolumeClaim}

Flags(nargs, ns, allNamespaces, gracePeriod, forceDeletion, needWaitDeletion, quiet, interactive, dryRunStrategy) ==
    [nargs |-> nargs, resourceTypes |-> WorkloadTypes,
     namespace |-> ns, allNamespaces |-> allNamespaces,
     gracePeriod |-> gracePeriod,
     forceDeletion |-> forceDeletion, needWaitDeletion |-> needWaitDeletion,
     quiet |-> quiet, interactive |-> interactive, dryRunStrategy |-> dryRunStrategy,
     showVersion |-> FALSE]

DefaultFlags == Flags(1, "default", FALSE, -1, FALSE, FALSE, FALSE, FALSE, DryRunNone)

\* A DetermineDeletion invocation: its arguments, the cluster its lookup met
\* and what it returned.
Call(info, cluster, ctxDone, ret) ==
    [info |-> info, cluster |-> cluster, ctxDone |-> ctxDone, ret |-> ret]

(***************************************************************************)
(* The determiner on its own: New on the candidates and list responses of  *)
(* a cluster, then DetermineDeletion on candidates, one call after another. *)
(***************************************************************************)
\* The candidate lists New's visit may see: only the kinds matter to it.
VisitLists ==
    {<<>>,
     <<Info(KindConfigMap, "a", "default", NoObject)>>,
     <<Info(KindSecret, "a", "default", NoObject)>>,
     <<Info(KindPersistentVolumeClaim, "a", "default", NoObject)>>,
     <<Info(KindPodDisruptionBudget, "a", "default", NoObject)>>,
     <<Info(KindPersistentVolume, "a", "", NoObject)>>,
     <<Info(KindSecret, "b", "default", NoObject),
       Info(KindPersistentVolumeClaim, "a", "default", NoObject),
       Info(KindConfigMap, "a", "default", NoObject)>>,
     <<Info(KindPod, "a", "default", NoObject),
       Info(KindHorizontalPodAutoscaler, "a", "default", NoObject),
       Info(KindJob, "a", "default", NoObject)>>}

NewInputs ==
    {[cluster |-> c, r |-> r, ns |-> ns, visitErr |-> Nil] :
        c \in WorkloadClusters \cup ClaimClusters \cup FailingClusters,
        r \in VisitLists, ns \in {"default", NamespaceAll}}
    \cup {[cluster |-> EmptyCluster, r |-> r, ns |-> ns, visitErr |-> "list failed"] :
             r \in VisitLists, ns \in {"default", NamespaceAll}}

DInit ==
    /\ flags = DefaultFlags
    /\ deleteOpts = <<>>
    /\ pc = "new"
    /\ namespace = "default"
    /\ reap = NoReap
    /\ d = EmptyDeterminer
    /\ sas = <<>>
    /\ calls = <<>>
    /\ call = <<>>
    /\ infos = <<>>
    /\ idx = 0
    /\ prompts = <<>>
    /\ deletes = <<>>
    /\ out = <<>>
    /\ deletedInfos = <<>>
    /\ uidMap = {}
    /\ waited = <<>>
    /\ cancelled = FALSE
    /\ errs = <<>>
    /\ listErrs = <<>>
    /\ lookup = <<>>
    /\ seen = NoVisit
    /\ err = Nil

DNew ==
    /\ pc = "new"
    /\ \E in \in NewInputs :
          LET Built(n) ==
                  /\ namespace' = in.ns
                  /\ infos' = in.r
                  /\ reap' = n.reap
                  /\ d' = n.d
                  /\ sas' = n.sas
                  /\ calls' = n.calls
                  /\ err' = n.err
                  /\ pc' = IF n.err = Nil THEN "built" ELSE "done"
          IN  Built(New(in.cluster, Result(in.r, in.visitErr), in.ns))
    /\ UNCHANGED <<flags, deleteOpts, call, idx, prompts, deletes, out, deletedInfos,
                   uidMap, waited, cancelled, errs, listErrs, lookup, seen>>

\* The determiner after DetermineDeletion on info.  The rules of ConfigMaps,
\* Secrets and PersistentVolumeClaims index a map of d; the rules of
\* PersistentVolumes and PodDisruptionBudgets range over a slice of d and
\* read its elements; the other rules do not touch d.
DeterminerAfter(dd, info) ==
    CASE info.kind = KindConfigMap ->
             [dd EXCEPT !.usedConfigMaps = MapIndex(@, info.name).m]
      [] info.kind = KindSecret ->
             [dd EXCEPT !.usedSecrets = MapIndex(@, info.name).m]
      [] info.kind = KindPersistentVolumeClaim ->
             [dd EXCEPT !.usedPersistentVolumeClaims = MapIndex(@, info.name).m]
      [] OTHER -> dd

DDetermine ==
    /\ pc = "built"
    /\ \E info \in Candidates :
       \E cl \in (IF info.kind = KindHorizontalPodAutoscaler
                  THEN LookupClusters ELSE {EmptyCluster}) :
       \E ctxDone \in (IF info.kind = KindHorizontalPodAutoscaler
                       THEN BOOLEAN ELSE {FALSE}) :
          /\ call' = <<Call(info, cl, ctxDone, DetermineDeletion(d, cl, ctxDone, info))>>
          /\ d' = DeterminerAfter(d, info)
    /\ pc' = "decided"
    /\ UNCHANGED <<flags, deleteOpts, namespace, reap, sas, calls, infos, idx, prompts,
                   deletes, out, deletedInfos, uidMap, waited, cancelled, errs,
                   listErrs, err, lookup, seen>>

\* DetermineDeletion once more on the candidate of the last call: the
\* lookup of a HorizontalPodAutoscaler meets the cluster and the context as
\* they are at the second call.
DAgain ==
    /\ pc = "decided"
    /\ LET info == call[1].info
       IN  \E cl \in (IF info.kind = KindHorizontalPodAutoscaler
                      THEN LookupClusters ELSE {EmptyCluster}) :
           \E done \in (IF info.kind = KindHorizontalPodAutoscaler
                        THEN BOOLEAN ELSE {FALSE}) :
              /\ call' = <<Call(info, cl, done, DetermineDeletion(d, cl, done, info))>>
              /\ d' = DeterminerAfter(d, info)
    /\ pc' = "again"
    /\ UNCHANGED <<flags, deleteOpts, namespace, reap, sas, calls, infos, idx, prompts,
                   deletes, out, deletedInfos, uidMap, waited, cancelled, errs,
                   listErrs, err, lookup, seen>>

DNext == DNew \/ DDetermine \/ DAgain

SpecDeterminer == DInit /\ [][DNext]_vars

(***************************************************************************)
(* The reap command: Validate, Complete and Run in turn, with the          *)
(* interrupt handler beside them.                                          *)
(***************************************************************************)
MaxInfos == 2   \* candidates one visit yields

\* The command lines: every combination of the flags Run reads in the
\* scope of one namespace, the wait with each strategy, the scope of
\* kube-system and the scope of all namespaces with each strategy, the
\* grace-period combinations Validate and Complete tell apart, a command
\* line with two arguments and the version flag.
FlagSets ==
    {Flags(1, "default", FALSE, -1, FALSE, FALSE, quiet, interactive, dry) :
        quiet \in BOOLEAN, interactive \in BOOLEAN,
        dry \in {DryRunNone, DryRunClient, DryRunServer}}
    \cup {Flags(1, "default", FALSE, -1, FALSE, TRUE, FALSE, FALSE, dry) :
             dry \in {DryRunNone, DryRunClient, DryRunServer}}
    \cup {Flags(1, NamespaceSystem, FALSE, -1, FALSE, FALSE, FALSE, FALSE, dry) :
             dry \in {DryRunNone, DryRunClient, DryRunServer}}
    \cup {Flags(1, "default", TRUE, -1, FALSE, FALSE, FALSE, interactive, dry) :
             interactive \in BOOLEAN,
             dry \in {DryRunNone, DryRunClient, DryRunServer}}
    \cup {[DefaultFlags EXCEPT !.gracePeriod = g, !.forceDeletion = force] :
             g \in {-1, 0, 1}, force \in BOOLEAN}
    \cup {[DefaultFlags EXCEPT !.resourceTypes = StorageTypes]}
    \cup {[DefaultFlags EXCEPT !.nargs = 2]}
    \cup {[DefaultFlags EXCEPT !.nargs = n, !.showVersion = TRUE] : n \in {0, 1}}

\* The objects of the requested resource types the cluster may hold.
RunCandidates ==
    <<Info(KindPod, "a", "default", [NoObject EXCEPT !.phase = "Failed"]),
      Info(KindPod, "k", NamespaceSystem, [NoObject EXCEPT !.phase = "Failed"]),
      Info(KindPod, "r", "default", [NoObject EXCEPT !.convertible = FALSE]),
      Info(KindConfigMap, "a", "default", NoObject),
      Info(KindHorizontalPodAutoscaler, "a", "default",
           [NoObject EXCEPT !.scaleTargetRef =
               CrossVersionObjectReference(<<"apps", "v1">>, "Deployment", "web")]),
      Info("Node", "n", "", NoObject),
      Info(KindPodDisruptionBudget, "b", "other",
           [NoObject EXCEPT !.selector =
               <<LabelSelector({}, <<LabelSelectorRequirement("app", "Equals", <<"foo">>)>>)>>]),
      Info(KindSecret, "a", "default", NoObject),
      Info(KindPersistentVolume, "v", "", NoObject),
      Info(KindPersistentVolumeClaim, "c", "default", NoObject)>>

\* The elements of seq at the positions in S, in the order of seq.
Pick(seq, S) ==
    LET F[i \in 0..Len(seq)] ==
            IF i = 0 THEN <<>>
            ELSE IF i \in S THEN Append(F[i - 1], seq[i]) ELSE F[i - 1]
    IN  F[Len(seq)]

\* The builder's scope: ResourceTypeOrNameArgs(false, resourceTypes),
\* NamespaceParam(r.namespace), AllNamespaces(r.allNamespaces).
InScope(f, info) ==
    /\ info.kind \in f.resourceTypes
    /\ f.allNamespaces \/ info.namespace = f.namespace \/ info.namespace = ""

\* The clusters the list requests of New are answered from: no workload, a
\* pod that uses ConfigMap a, or one of the four list requests failing.
RunClusters ==
    {EmptyCluster,
     Cluster(<<Pod("default", {}, SpecWith("cmEnvFrom", "a"))>>, <<>>, <<>>, <<>>, {}, {})}
    \cup FailingClusters

Key(info) == [kind |-> info.kind, namespace |-> info.namespace, name |-> info.name]

NoKey == [kind |-> "", namespace |-> "", name |-> ""]

\* A line written to r.Out or r.ErrOut.
Line(stream, text, key) == [stream |-> stream, text |-> text, key |-> key]

\* A variant whose message is the same under every strategy.
printObjPlain(f, info) == Line("out", "deleted", Key(info))

\* printObj: the operation message of the printer completePrinter built.
printObj(f, info) ==
    Line("out",
         CASE f.dryRunStrategy = DryRunClient -> "deleted (dry run)"
           [] f.dryRunStrategy = DryRunServer -> "deleted (server dry run)"
           [] OTHER -> "deleted",
         Key(info))

Init ==
    /\ flags \in FlagSets
    /\ deleteOpts = <<>>
    /\ pc = "validate"
    /\ namespace = ""
    /\ reap = NoReap
    /\ d = EmptyDeterminer
    /\ sas = <<>>
    /\ calls = <<>>
    /\ call = <<>>
    /\ infos = <<>>
    /\ idx = 0
    /\ prompts = <<>>
    /\ deletes = <<>>
    /\ out = <<>>
    /\ deletedInfos = <<>>
    /\ uidMap = {}
    /\ waited = <<>>
    /\ cancelled = FALSE
    /\ errs = <<>>
    /\ listErrs = <<>>
    /\ lookup = <<>>
    /\ seen = NoVisit
    /\ err = Nil

\* The Run function of the command, lines 115-118: with --version it prints
\* the version and returns before the signal handler is installed and
\* before Validate, Complete and Run.
ShowVersion ==
    /\ pc = "validate"
    /\ flags.showVersion
    /\ out' = Append(out, Line("out", "version (revision)", NoKey))
    /\ pc' = "exit"
    /\ UNCHANGED <<flags, deleteOpts, namespace, reap, d, sas, calls, call, infos, idx,
                   prompts, deletes, deletedInfos, uidMap, waited, cancelled, errs,
                   listErrs, err, lookup, seen>>

\* runner.Validate, and CheckErr on what it returns.
Validate ==
    /\ pc = "validate"
    /\ ~flags.showVersion
    /\ IF flags.nargs # 1 /\ ~flags.showVersion
       THEN /\ err' = "arguments must be only resource type(s)"
            /\ pc' = "exit"
            /\ out' = out
       ELSE IF flags.forceDeletion /\ flags.gracePeriod = 0
       THEN /\ out' = Append(out, Line("err", "warning: Immediate deletion", NoKey))
            /\ pc' = "complete"
            /\ err' = err
       ELSE IF flags.forceDeletion /\ flags.gracePeriod > 0
       THEN /\ err' = "--force and --grace-period greater than 0"
            /\ pc' = "exit"
            /\ out' = out
       ELSE /\ pc' = "complete"
            /\ UNCHANGED <<out, err>>
    /\ UNCHANGED <<flags, deleteOpts, namespace, reap, d, sas, calls, call, infos, idx,
                   prompts, deletes, deletedInfos, uidMap, waited, cancelled, errs,
                   listErrs, lookup, seen>>

\* A variant that keeps the grace period as it was requested.
CompleteGracePeriodAsGiven(f) == f.gracePeriod

\* The grace period Complete settles on.
CompleteGracePeriod(f) ==
    LET g1 == IF ~f.forceDeletion /\ f.gracePeriod = 0 THEN 1 ELSE f.gracePeriod
    IN  IF f.forceDeletion /\ g1 < 0 THEN 0 ELSE g1

\* A variant that goes on to Run whatever New returned.
AfterNewUnchecked(n) == "visit"

\* Complete, lines 211-214, and CheckErr: the command ends if New failed.
AfterNew(n) == IF n.err = Nil THEN "visit" ELSE "exit"

\* utilerrors.NewAggregate: nil for no error; the aggregate of one error
\* reads as that error.
NewAggregate(es) ==
    IF es = <<>> THEN Nil ELSE IF Len(es) = 1 THEN es[1] ELSE "aggregate"

\* The errors the visit has at its end: those of the callback, then the
\* aggregate of those of its list requests, if any.
Gathered(es, les) ==
    IF NewAggregate(les) = Nil THEN es ELSE Append(es, NewAggregate(les))

\* A variant of the visit that returns nil whatever the callbacks returned.
VisitErrorDropped(es) == Nil

\* What r.result.Visit returns under ContinueOnError: nil, the one error it
\* gathered, or the aggregate of them.
VisitError(es) ==
    IF es = <<>> THEN Nil ELSE IF Len(es) = 1 THEN es[1] ELSE "aggregate"

\* The position of a listed candidate among the objects cands.
Position(cands, info) == CHOOSE i \in DOMAIN cands : cands[i] = info

\* What one list request of a visit can yield after the candidates listed so
\* far: objects of one resource type, of the scope, that cands holds after
\* them; a visit yields at most max objects.
Batches(cands, max, f, listed) ==
    LET next == {i \in DOMAIN cands :
                    /\ InScope(f, cands[i])
                    /\ \A k \in DOMAIN listed : Position(cands, listed[k]) < i}
    IN  {Pick(cands, S) :
            S \in {T \in SUBSET next :
                      /\ T # {}
                      /\ Len(listed) + Cardinality(T) <= max
                      /\ \A i, j \in T : cands[i].kind = cands[j].kind}}

MaxListErrs == 2   \* failed list requests in one visit

\* runner.Complete, lines 159-170: the grace period and the delete options.
\* What follows waits for the kubeconfig and for the discovery requests of
\* the builder.
Complete ==
    /\ pc = "complete"
    /\ LET g == CompleteGracePeriod(flags)
       IN  /\ flags' = [flags EXCEPT !.gracePeriod = g]
           /\ deleteOpts' = IF g >= 0 THEN <<g>> ELSE <<>>
    /\ pc' = "resources"
    /\ UNCHANGED <<namespace, reap, d, sas, calls, call, infos, idx, prompts, deletes,
                   out, deletedInfos, uidMap, waited, cancelled, errs, listErrs,
                   lookup, seen, err>>

\* runner.Complete, lines 172-209, and CheckErr: the namespace, the
\* result of the builder and the clients; the command ends if one of them
\* fails, and Complete calls determiner.New otherwise.
CompleteResources ==
    /\ pc = "resources"
    /\ \E resultErr \in BOOLEAN :
          IF resultErr
          THEN /\ err' = "result error"
               /\ pc' = "exit"
               /\ namespace' = namespace
          ELSE /\ namespace' = IF flags.allNamespaces THEN NamespaceAll
                               ELSE flags.namespace
               /\ pc' = "new"
               /\ err' = err
    /\ UNCHANGED <<flags, deleteOpts, reap, d, sas, calls, call, infos, idx, prompts,
                   deletes, out, deletedInfos, uidMap, waited, cancelled, errs,
                   listErrs, lookup, seen>>

\* New has returned n to Complete: the determiner, or the error the command
\* ends with.  The visit of New is over.
NewReturns(n) ==
    /\ d' = n.d
    /\ sas' = n.sas
    /\ err' = n.err
    /\ pc' = AfterNew(n)
    /\ seen' = NoVisit

\* determiner.New, prompt.go lines 315-329: one list request of r.Visit
\* under ContinueOnError.  The callback runs on what the request yielded
\* and sets the flag of each kind it meets, before the next request is
\* sent; a request that fails adds its error to those the visit returns at
\* its end, and the visit goes on.
NewVisit ==
    /\ pc = "new"
    /\ \/ \E batch \in Batches(RunCandidates, MaxInfos, flags, seen.infos) :
             /\ seen' = [seen EXCEPT !.infos = @ \o batch]
             /\ reap' = ReapKinds(seen.infos \o batch)
       \/ /\ Len(seen.errs) < MaxListErrs
          /\ \E e \in VisitErrors \ {Nil} : seen' = [seen EXCEPT !.errs = Append(@, e)]
          /\ reap' = reap
    /\ UNCHANGED <<flags, deleteOpts, pc, namespace, d, sas, calls, call, infos, idx,
                   prompts, deletes, out, deletedInfos, uidMap, waited, cancelled,
                   errs, listErrs, lookup, err>>

\* determiner.New, prompt.go lines 329-331: the visit returns.  New
\* returns its error; it returns the determiner at once when no kind needs a
\* list of the cluster, and goes on to its list requests otherwise.
NewVisited ==
    /\ pc = "new"
    /\ LET Visited(n) ==
               IF n.calls = <<>>
               THEN NewReturns(n)
               ELSE /\ pc' = "newlist"
                    /\ UNCHANGED <<d, sas, err, seen>>
       IN  Visited(New(EmptyCluster, Result(seen.infos, VisitError(Gathered(<<>>, seen.errs))),
                       namespace))
    /\ UNCHANGED <<flags, deleteOpts, namespace, reap, calls, call, infos, idx,
                   prompts, deletes, out, deletedInfos, uidMap, waited, cancelled,
                   errs, listErrs, lookup>>

\* determiner.New, prompt.go lines 333-375: the next list request (Pods,
\* ReplicaSets, PersistentVolumeClaims, ServiceAccounts), answered by a
\* cluster that answered the earlier ones as recorded.  A failed request
\* ends New with its error; after the last one New builds the indexes and
\* returns the determiner.
NewList ==
    /\ pc = "newlist"
    /\ \E cluster \in RunClusters :
          LET k == Len(calls) + 1
              Listed(n) ==
                  /\ Len(n.calls) >= k
                  /\ SubSeq(n.calls, 1, k - 1) = calls
                  /\ calls' = SubSeq(n.calls, 1, k)
                  /\ IF k = Len(n.calls)
                     THEN NewReturns(n)
                     ELSE UNCHANGED <<d, sas, err, pc, seen>>
          IN  Listed(New(cluster, Result(seen.infos, Nil), namespace))
    /\ UNCHANGED <<flags, deleteOpts, namespace, reap, call, infos, idx, prompts,
                   deletes, out, deletedInfos, uidMap, waited, cancelled, errs,
                   listErrs, lookup>>

\* The clusters a lookup of Run meets: the scale target missing, the get
\* request failing, the scale target found.
RunLookupClusters ==
    {cl \in LookupClusters :
        cl.objects = {} \/ (cl.failing = {} /\ Cardinality(cl.objects) = 1)}

\* Run, line 268: r.result.Visit under ContinueOnError lists one resource
\* type, or one chunk of it, after the other and runs the callback on what a
\* request yielded before it sends the next one.  A request that fails adds
\* its error to those the visit returns at its end, and the visit goes on.
RunList ==
    /\ pc = "visit"
    /\ idx = Len(infos)
    /\ \/ /\ \E batch \in Batches(RunCandidates, MaxInfos, flags, infos) :
                infos' = infos \o batch
          /\ listErrs' = listErrs
       \/ /\ Len(listErrs) < MaxListErrs
          /\ \E e \in VisitErrors \ {Nil} : listErrs' = Append(listErrs, e)
          /\ infos' = infos
    /\ UNCHANGED <<flags, deleteOpts, pc, namespace, reap, d, sas, calls, call, idx,
                   prompts, deletes, out, deletedInfos, uidMap, waited, cancelled,
                   errs, err, lookup, seen>>

\* A variant that lets every namespace through.
IgnoredNone(info) == FALSE

\* Run, lines 269-271: resources in kube-system are ignored.
Ignored(info) == info.namespace = NamespaceSystem

\* The answers the delete request can get: a Status with details, the
\* deleted object, an object without metadata, or an error.
Responses == {"status", "object", "no accessor", "error"}

\* What survey.AskOne can come back with: the answer Yes, the answer No, or
\* an error (the terminal is gone, the user interrupts the question).
PromptReplies == {"yes", "no", "error"}

\* A prompt shown for a candidate, with what came back.
Prompt(info, reply) ==
    [kind |-> info.kind, namespace |-> info.namespace, name |-> info.name,
     reply |-> reply]

\* A variant that takes every reply for a confirmation.
ConfirmAlways(reply) == TRUE

\* prompt.Confirm: the answer, and false when the question failed.
Confirm(reply) == reply = "yes"

\* What the callback of Run writes to: the prompts shown, the delete
\* requests sent, the lines written, deletedInfos, uidMap and the errors the
\* visit has gathered.
Locals ==
    [prompts |-> prompts, deletes |-> deletes, out |-> out,
     deletedInfos |-> deletedInfos, uidMap |-> uidMap, errs |-> errs]

\* The callback leaves st behind.
Becomes(st) ==
    /\ prompts' = st.prompts
    /\ deletes' = st.deletes
    /\ out' = st.out
    /\ deletedInfos' = st.deletedInfos
    /\ uidMap' = st.uidMap
    /\ errs' = st.errs

\* Run, lines 281-286: in interactive mode the prompt is shown.
Asked(f, st, info, reply) ==
    IF f.interactive THEN [st EXCEPT !.prompts = Append(@, Prompt(info, reply))] ELSE st

\* Run, lines 281-286: the callback goes on past the prompt.
Confirmed(f, reply) == ~f.interactive \/ Confirm(reply)

\* Run, lines 290-293: under the client strategy with quiet unset the
\* callback prints the object and returns.
PrintsOnly(f) == f.dryRunStrategy = DryRunClient /\ ~f.quiet

\* Run, lines 288-293: the candidate is appended to deletedInfos, and
\* printed at once when the callback does no more than print.
Kept(f, st, info) ==
    LET kept == [st EXCEPT !.deletedInfos = Append(@, Key(info))]
    IN  IF PrintsOnly(f) THEN [kept EXCEPT !.out = Append(@, printObj(f, info))]
        ELSE kept

\* Run, lines 294-298: the error of the dry-run verifier is returned.
Verified(st, support) ==
    IF support THEN st ELSE [st EXCEPT !.errs = Append(@, "dry run not supported")]

\* Run, lines 300-303: the delete request is sent.
Sent(f, dOpts, st, info) ==
    [st EXCEPT !.deletes =
        Append(@, [key    |-> Key(info),
                   dryRun |-> (f.dryRunStrategy = DryRunServer),
                   opts   |-> dOpts])]

\* Run, lines 303-306: the answer of the delete request; its error is
\* returned.
Replied(st, resp) ==
    IF resp = "error" THEN [st EXCEPT !.errs = Append(@, "delete failed")] ELSE st

\* Run, lines 308-320 and 328: printObj unless quiet, and the UID of the
\* answer when it has one.
Shown(f, st, info, resp) ==
    LET shown == IF ~f.quiet THEN [st EXCEPT !.out = Append(@, printObj(f, info))]
                 ELSE st
    IN  IF resp = "no accessor" THEN shown
        ELSE [shown EXCEPT !.uidMap = @ \cup {Key(info)}]

\* Run, lines 322-327: the accessor's error is written to Out.
Skipped(st) ==
    [st EXCEPT !.out = Append(@, Line("out", "object does not implement", NoKey))]

\* Run, lines 281-330: the callback from the prompt to its return, for a
\* candidate the determiner approved.  reply, support and resp are what the
\* prompt, the dry-run verifier and the delete request come back with.
Approved(f, dOpts, st, info, reply, support, resp) ==
    LET asked == Asked(f, st, info, reply)
        kept  == Kept(f, asked, info)
        sent  == Replied(Sent(f, dOpts, kept, info), resp)
        shown == Shown(f, sent, info, resp)
    IN  IF ~Confirmed(f, reply) THEN asked
        ELSE IF PrintsOnly(f) THEN kept
        ELSE IF f.dryRunStrategy = DryRunServer /\ ~support THEN Verified(kept, support)
        ELSE IF resp = "error" THEN sent
        ELSE IF resp = "no accessor" THEN Skipped(shown)
        ELSE shown

\* A variant that hands Run a context nobody cancels.
ContextBackground(c) == FALSE

\* NewCmdReap, lines 120 and 135: the context handed to Run is the one the
\* signal goroutine cancels; it is done once cancel was called.
ContextDone(c) == c

\* DetermineDeletion on the candidate sends a get request: the candidate is
\* a HorizontalPodAutoscaler whose payload converts and whose scale-target
\* apiVersion parses.
SendsLookup(dd, info) ==
    /\ info.kind = KindHorizontalPodAutoscaler
    /\ DetermineDeletion(dd, EmptyCluster, FALSE, info).gets > 0

\* Run, lines 273-279: DetermineDeletion returns ret and the callback
\* returns its error, skips the candidate or goes on to the prompt.
Determined(info, cl, ctxDone) ==
    LET Returns(ret) ==
            /\ call' = <<Call(info, cl, ctxDone, ret)>>
            /\ d' = DeterminerAfter(d, info)
            /\ IF ret.err # Nil
               THEN /\ errs' = Append(errs, ret.err)
                    /\ idx' = idx + 1
                    /\ pc' = "visit"
               ELSE IF ~ret.ok
               THEN /\ idx' = idx + 1
                    /\ pc' = "visit"
                    /\ errs' = errs
               ELSE /\ pc' = "approved"
                    /\ UNCHANGED <<idx, errs>>
    IN  Returns(DetermineDeletion(d, cl, ctxDone, info))

\* Run, lines 268-279: the callback on the next object the visit listed.  A
\* candidate in kube-system is ignored.  For a HorizontalPodAutoscaler
\* DetermineDeletion sends the get request of the scale target under Run's
\* context and waits for the answer; for every other kind it returns at once.
RunVisit ==
    /\ pc = "visit"
    /\ idx < Len(infos)
    /\ LET info == infos[idx + 1]
       IN  IF Ignored(info)
           THEN /\ idx' = idx + 1
                /\ UNCHANGED <<pc, call, errs, d, lookup, seen>>
           ELSE IF SendsLookup(d, info)
           THEN /\ lookup' = <<[key |-> Key(info), sentDone |-> ContextDone(cancelled)]>>
                /\ pc' = "lookup"
                /\ UNCHANGED <<idx, call, errs, d>>
           ELSE /\ Determined(info, EmptyCluster, ContextDone(cancelled))
                /\ lookup' = lookup
    /\ UNCHANGED <<flags, deleteOpts, namespace, reap, sas, calls, infos, prompts,
                   deletes, out, deletedInfos, uidMap, waited, cancelled, err,
                   listErrs, seen>>

\* client.go, line 89, and Run, lines 273-279: the get request in flight
\* ends.  The request is bound to Run's context for its whole life: it fails
\* with the context's error if the context is done before the answer is
\* read, and otherwise meets the cluster as it is then.
RunLookup ==
    /\ pc = "lookup"
    /\ \E cl \in RunLookupClusters :
          Determined(infos[idx + 1], cl, ContextDone(cancelled))
    /\ UNCHANGED <<flags, deleteOpts, namespace, reap, sas, calls, infos, prompts,
                   deletes, out, deletedInfos, uidMap, waited, cancelled, err,
                   listErrs, lookup, seen>>

\* Run, lines 281-286: the prompt of interactive mode; a declined or failed
\* prompt skips the candidate.
RunPrompt ==
    /\ pc = "approved"
    /\ \E reply \in (IF flags.interactive THEN PromptReplies ELSE {"yes"}) :
          /\ Becomes(Asked(flags, Locals, infos[idx + 1], reply))
          /\ IF Confirmed(flags, reply)
             THEN /\ pc' = "confirmed"
                  /\ idx' = idx
             ELSE /\ pc' = "visit"
                  /\ idx' = idx + 1
    /\ UNCHANGED <<flags, deleteOpts, namespace, reap, d, sas, calls, call, infos,
                   waited, cancelled, err, listErrs, lookup, seen>>

\* Run, lines 288-293: the candidate joins deletedInfos; under the client
\* strategy with quiet unset the callback prints it and returns.
RunKeep ==
    /\ pc = "confirmed"
    /\ Becomes(Kept(flags, Locals, infos[idx + 1]))
    /\ IF PrintsOnly(flags)
       THEN /\ pc' = "visit"
            /\ idx' = idx + 1
       ELSE /\ pc' = IF flags.dryRunStrategy = DryRunServer THEN "verify" ELSE "delete"
            /\ idx' = idx
    /\ UNCHANGED <<flags, deleteOpts, namespace, reap, d, sas, calls, call, infos,
                   waited, cancelled, err, listErrs, lookup, seen>>

\* Run, lines 294-298: under the server strategy the dry-run verifier has
\* asked the cluster whether the kind supports dry run; its error is
\* returned.
RunDryRun ==
    /\ pc = "verify"
    /\ \E support \in BOOLEAN :
          /\ Becomes(Verified(Locals, support))
          /\ IF support
             THEN /\ pc' = "delete"
                  /\ idx' = idx
             ELSE /\ pc' = "visit"
                  /\ idx' = idx + 1
    /\ UNCHANGED <<flags, deleteOpts, namespace, reap, d, sas, calls, call, infos,
                   waited, cancelled, err, listErrs, lookup, seen>>

\* Run, lines 300-303: the delete request is sent, as a dry run under the
\* server strategy.  It is not bound to the context of Run.
RunDelete ==
    /\ pc = "delete"
    /\ Becomes(Sent(flags, deleteOpts, Locals, infos[idx + 1]))
    /\ pc' = "deleting"
    /\ UNCHANGED <<flags, deleteOpts, namespace, reap, d, sas, calls, call, infos, idx,
                   waited, cancelled, err, listErrs, lookup, seen>>

\* Run, lines 303-306: the delete request is answered; its error is
\* returned.
RunDeleted ==
    /\ pc = "deleting"
    /\ \E resp \in Responses :
          /\ Becomes(Replied(Locals, resp))
          /\ IF resp = "error"
             THEN /\ pc' = "visit"
                  /\ idx' = idx + 1
             ELSE /\ pc' = "deleted"
                  /\ idx' = idx
    /\ UNCHANGED <<flags, deleteOpts, namespace, reap, d, sas, calls, call, infos,
                   waited, cancelled, err, listErrs, lookup, seen>>

\* Run, lines 308-328: printObj unless quiet, then the UID of what the
\* delete request answered with, if it has metadata.
RunPrint ==
    /\ pc = "deleted"
    /\ \E resp \in Responses \ {"error"} :
          /\ Becomes(Shown(flags, Locals, infos[idx + 1], resp))
          /\ IF resp = "no accessor"
             THEN /\ pc' = "accessor"
                  /\ idx' = idx
             ELSE /\ pc' = "visit"
                  /\ idx' = idx + 1
    /\ UNCHANGED <<flags, deleteOpts, namespace, reap, d, sas, calls, call, infos,
                   waited, cancelled, err, listErrs, lookup, seen>>

\* Run, lines 322-327: the answer of the delete request has no metadata; the
\* callback writes the accessor's error to Out and returns nil.
RunAccessor ==
    /\ pc = "accessor"
    /\ Becomes(Skipped(Locals))
    /\ pc' = "visit"
    /\ idx' = idx + 1
    /\ UNCHANGED <<flags, deleteOpts, namespace, reap, d, sas, calls, call, infos,
                   waited, cancelled, err, listErrs, lookup, seen>>

\* The outcomes of cmdwait's RunWait: every object gone, the wait forbidden
\* or the timeout reached.
WaitOutcomes == {"deleted", "forbidden", "timeout"}

\* Run, lines 331-339, and CheckErr: the visit has no more to list and
\* returns; Run returns its error, returns nil, or hands deletedInfos and
\* uidMap to waitDeletion.
RunFinish ==
    /\ pc = "visit"
    /\ idx = Len(infos)
    /\ IF VisitError(Gathered(errs, listErrs)) # Nil
       THEN /\ err' = VisitError(Gathered(errs, listErrs))
            /\ pc' = "exit"
            /\ waited' = waited
       ELSE IF ~flags.needWaitDeletion
       THEN /\ pc' = "exit"
            /\ UNCHANGED <<waited, err>>
       ELSE /\ waited' = <<[infos |-> deletedInfos, uids |-> uidMap]>>
            /\ pc' = "wait"
            /\ err' = err
    /\ UNCHANGED <<flags, deleteOpts, namespace, reap, d, sas, calls, call, infos, idx,
                   prompts, deletes, out, deletedInfos, uidMap, cancelled, errs,
                   listErrs, lookup, seen>>

\* waitDeletion, lines 359-364, and Run, line 341: RunWait returns; a
\* forbidden or unsupported wait is written to ErrOut, and Run returns nil
\* whatever the wait returned.
RunWait ==
    /\ pc = "wait"
    /\ \E outcome \in WaitOutcomes :
          out' = IF outcome = "forbidden"
                 THEN Append(out, Line("err", "forbidden", NoKey))
                 ELSE out
    /\ pc' = "exit"
    /\ UNCHANGED <<flags, deleteOpts, namespace, reap, d, sas, calls, call, infos, idx,
                   prompts, deletes, deletedInfos, uidMap, waited, cancelled, errs,
                   listErrs, err, lookup, seen>>

\* The signal goroutine has written its line.
Announced == \E i \in DOMAIN out : out[i].text = "Canceling execution..."

\* NewCmdReap, lines 123-127: the goroutine receives SIGINT or SIGTERM and
\* writes its line.  It handles one signal, and only while the command runs.
Interrupt ==
    /\ pc # "exit"
    /\ ~flags.showVersion
    /\ ~Announced
    /\ out' = Append(out, Line("out", "Canceling execution...", NoKey))
    /\ UNCHANGED <<flags, deleteOpts, pc, namespace, reap, d, sas, calls, call, infos,
                   idx, prompts, deletes, deletedInfos, uidMap, waited, cancelled, errs,
                   listErrs, err, lookup, seen>>

\* NewCmdReap, line 128: the goroutine then cancels the context.
Cancel ==
    /\ pc # "exit"
    /\ Announced
    /\ ~cancelled
    /\ cancelled' = TRUE
    /\ UNCHANGED <<flags, deleteOpts, pc, namespace, reap, d, sas, calls, call, infos,
                   idx, prompts, deletes, out, deletedInfos, uidMap, waited, errs,
                   listErrs, err, lookup, seen>>

Next ==
    \/ ShowVersion \/ Validate \/ Complete \/ CompleteResources \/ NewVisit
    \/ NewVisited \/ NewList \/ RunList \/ RunVisit \/ RunLookup \/ RunPrompt
    \/ RunKeep \/ RunDryRun \/ RunDelete \/ RunDeleted \/ RunPrint \/ RunAccessor
    \/ RunFinish \/ RunWait \/ Interrupt \/ Cancel

Spec == Init /\ [][Next]_vars

\* C1: Run never calls DetermineDeletion, never prompts, never issues a delete
\* request and never prints for a candidate whose namespace is kube-system,
\* whether the scope is one namespace, kube-system itself or all namespaces.
C1_SystemNamespaceUntouched ==
    /\ call # <<>> => call[1].info.namespace # NamespaceSystem
    /\ \A i \in DOMAIN prompts : prompts[i].namespace # NamespaceSystem
    /\ \A i \in DOMAIN deletes : deletes[i].key.namespace # NamespaceSystem
    /\ \A i \in DOMAIN out : out[i].key.namespace # NamespaceSystem
    /\ \A i \in DOMAIN deletedInfos : deletedInfos[i].namespace # NamespaceSystem

C1_Witness ==
    /\ pc = "visit"
    /\ idx = 2
    /\ infos[1].namespace = NamespaceSystem
    /\ infos[2].namespace # NamespaceSystem
    /\ flags.allNamespaces
    /\ flags.interactive
    /\ Len(prompts) = 1
    /\ Len(deletes) = 1

\* C2: when the dry-run strategy is client, Run issues no delete request for
\* any candidate, whatever the quiet, interactive, wait and force flags.
C2_ClientDryRunDeletesNothing ==
    flags.dryRunStrategy = DryRunClient => deletes = <<>>

(***************************************************************************)
(* What the decision rules are meant to compute, stated on the objects     *)
(* themselves.                                                             *)
(***************************************************************************)
Decided(kind) == call # <<>> /\ call[1].info.kind = kind

\* The pod spec refers to the ConfigMap n through one of the four shapes.
RefersToConfigMap(spec, n) ==
    \/ \E i \in DOMAIN spec.containers : \E j \in DOMAIN spec.containers[i].envFrom :
          spec.containers[i].envFrom[j].configMapRef = n
    \/ \E i \in DOMAIN spec.containers : \E j \in DOMAIN spec.containers[i].env :
          LET from == spec.containers[i].env[j].valueFrom
          IN  from # <<>> /\ from[1].configMapKeyRef = n
    \/ \E i \in DOMAIN spec.volumes : spec.volumes[i].configMap = n
    \/ \E i \in DOMAIN spec.volumes :
          LET projected == spec.volumes[i].projected
          IN  projected # <<>> /\ \E j \in DOMAIN projected[1] : projected[1][j].configMap = n

\* The pod spec refers to the Secret n through one of the four shapes.
RefersToSecret(spec, n) ==
    \/ \E i \in DOMAIN spec.containers : \E j \in DOMAIN spec.containers[i].envFrom :
          spec.containers[i].envFrom[j].secretRef = n
    \/ \E i \in DOMAIN spec.containers : \E j \in DOMAIN spec.containers[i].env :
          LET from == spec.containers[i].env[j].valueFrom
          IN  from # <<>> /\ from[1].secretKeyRef = n
    \/ \E i \in DOMAIN spec.volumes : spec.volumes[i].secret = n
    \/ \E i \in DOMAIN spec.volumes :
          LET projected == spec.volumes[i].projected
          IN  projected # <<>> /\ \E j \in DOMAIN projected[1] : projected[1][j].secret = n

\* Some Pod or ReplicaSet pod template of the snapshot refers to the ConfigMap n.
ConfigMapReferenced(n) ==
    \/ \E i \in DOMAIN d.pods : RefersToConfigMap(d.pods[i].spec, n)
    \/ \E i \in DOMAIN d.replicaSets : RefersToConfigMap(d.replicaSets[i].template, n)

\* Some Pod, ReplicaSet pod template or listed ServiceAccount refers to the Secret n.
SecretReferenced(n) ==
    \/ \E i \in DOMAIN d.pods : RefersToSecret(d.pods[i].spec, n)
    \/ \E i \in DOMAIN d.pods : \E j \in DOMAIN d.pods[i].spec.imagePullSecrets :
          d.pods[i].spec.imagePullSecrets[j] = n
    \/ \E i \in DOMAIN d.replicaSets : RefersToSecret(d.replicaSets[i].template, n)
    \/ \E i \in DOMAIN sas : \E j \in DOMAIN sas[i].secrets : sas[i].secrets[j] = n

\* Some Pod of the snapshot has a volume of the claim n.
ClaimReferenced(n) ==
    \E i \in DOMAIN d.pods : \E j \in DOMAIN d.pods[i].spec.volumes :
        d.pods[i].spec.volumes[j].persistentVolumeClaim = n

\* C3: DetermineDeletion on a ConfigMap candidate named N returns (true, nil)
\* if and only if no Pod and no ReplicaSet pod template of the snapshot refers
\* to N through one of the four shapes, and (false, nil) otherwise.
C3_ConfigMapDeletedIffUnreferenced ==
    Decided(KindConfigMap) =>
        /\ call[1].ret.err = Nil
        /\ call[1].ret.ok = ~ConfigMapReferenced(call[1].info.name)

\* C4: DetermineDeletion on a Secret candidate named N returns (true, nil) if
\* and only if no Pod (container, volume or imagePullSecrets), no ReplicaSet pod
\* template and no ServiceAccount refers to N, and (false, nil) otherwise.
C4_SecretDeletedIffUnreferenced ==
    Decided(KindSecret) =>
        /\ call[1].ret.err = Nil
        /\ call[1].ret.ok = ~SecretReferenced(call[1].info.name)

\* C5: DetermineDeletion on a PersistentVolumeClaim candidate named N returns
\* (true, nil) if and only if no Pod of the snapshot has a volume whose
\* claimName is N, and (false, nil) otherwise.
C5_ClaimDeletedIffUnreferenced ==
    Decided(KindPersistentVolumeClaim) =>
        /\ call[1].ret.err = Nil
        /\ call[1].ret.ok = ~ClaimReferenced(call[1].info.name)

\* C6: for every Pod candidate DetermineDeletion returns (true, nil) if and
\* only if the Pod's phase is not Running, whatever the collateral snapshot.
C6_PodDeletedIffNotRunning ==
    (Decided(KindPod) /\ call[1].info.object.convertible) =>
        /\ call[1].ret.err = Nil
        /\ call[1].ret.ok = (call[1].info.object.phase \in PodPhases \ {"Running"})

C6_Witness ==
    /\ Decided(KindPod)
    /\ call[1].info.object.convertible
    /\ call[1].info.object.phase = "Pending"
    /\ call[1].ret.ok
    /\ d.pods # <<>>

\* C7: for every Job candidate DetermineDeletion returns (true, nil) if and
\* only if the completion time is set, whatever its value and the Job's other
\* status fields, and (false, nil) when it is not set.
C7_JobDeletedIffCompleted ==
    (Decided(KindJob) /\ call[1].info.object.convertible) =>
        /\ call[1].ret.err = Nil
        /\ call[1].ret.ok = (Len(call[1].info.object.completionTime) = 1)

C7_Witness ==
    /\ Decided(KindJob)
    /\ call[1].info.object.convertible
    /\ call[1].info.object.completionTime = <<0>>
    /\ call[1].info.object.active = 1
    /\ call[1].ret.ok

\* C8: for every PersistentVolume candidate V DetermineDeletion returns
\* (true, nil) if and only if V satisfies no PersistentVolumeClaim of the
\* snapshot, wherever a satisfied claim stands in the list.
C8_VolumeDeletedIffNoClaimSatisfied ==
    (Decided(KindPersistentVolume) /\ call[1].info.object.convertible) =>
        /\ call[1].ret.err = Nil
        /\ call[1].ret.ok =
              (\A i \in DOMAIN d.persistentVolumeClaims :
                  ~CheckVolumeSatisfyClaim(call[1].info.object.volume,
                                           d.persistentVolumeClaims[i]))

C8_Witness ==
    /\ Decided(KindPersistentVolume)
    /\ call[1].info.object.convertible
    /\ Len(d.persistentVolumeClaims) = 2
    /\ ~CheckVolumeSatisfyClaim(call[1].info.object.volume, d.persistentVolumeClaims[1])
    /\ CheckVolumeSatisfyClaim(call[1].info.object.volume, d.persistentVolumeClaims[2])
    /\ ~call[1].ret.ok

\* A selector the conversion accepts: every key is a label key and every
\* value a label value, and every expression has one of the four operators,
\* In and NotIn with values, Exists and DoesNotExist without.
WellFormed(selector) ==
    selector # <<>> =>
        /\ \A kv \in selector[1].matchLabels :
               validateLabelKey(kv[1]) /\ validateLabelValue(kv[2])
        /\ \A i \in DOMAIN selector[1].matchExpressions :
               LET e == selector[1].matchExpressions[i]
               IN  /\ validateLabelKey(e.key)
                   /\ \A j \in DOMAIN e.values : validateLabelValue(e.values[j])
                   /\ \/ e.operator \in {"In", "NotIn"} /\ e.values # <<>>
                      \/ e.operator \in {"Exists", "DoesNotExist"} /\ e.values = <<>>

\* The label set satisfies the selector, by the standard selector semantics.
Satisfies(labels, selector) ==
    /\ selector # <<>>
    /\ selector[1].matchLabels \subseteq labels
    /\ \A i \in DOMAIN selector[1].matchExpressions :
          LET e == selector[1].matchExpressions[i]
              among == \E j \in DOMAIN e.values : <<e.key, e.values[j]>> \in labels
              present == \E kv \in labels : kv[1] = e.key
          IN  CASE e.operator = "In" -> among
                [] e.operator = "NotIn" -> ~among
                [] e.operator = "Exists" -> present
                [] e.operator = "DoesNotExist" -> ~present

\* C9: for every PodDisruptionBudget candidate with a well-formed selector
\* DetermineDeletion returns (true, nil) if and only if no Pod of the snapshot
\* has labels satisfying the selector; and the selectors matchLabels {k: v} and
\* matchExpressions 'k In (v)' get the same decision on the snapshot.
C9_BudgetDeletedIffNoPodMatches ==
    (/\ Decided(KindPodDisruptionBudget)
     /\ call[1].info.object.convertible
     /\ WellFormed(call[1].info.object.selector)) =>
        /\ call[1].ret.err = Nil
        /\ call[1].ret.ok =
              ~(\E i \in DOMAIN d.pods :
                   Satisfies(d.pods[i].labels, call[1].info.object.selector))
        /\ \A kv \in LabelPairs :
              call[1].info.object.selector = MatchLabelsSelector(kv[1], kv[2]) =>
                 call[1].ret =
                    DetermineDeletion(d, call[1].cluster, call[1].ctxDone,
                        [call[1].info EXCEPT
                            !.object.selector = MatchInSelector(kv[1], kv[2])])

C9_Witness ==
    /\ Decided(KindPodDisruptionBudget)
    /\ call[1].info.object.selector = MatchLabelsSelector("app", "foo")
    /\ \E i \in DOMAIN d.pods : <<"app", "foo">> \in d.pods[i].labels
    /\ ~call[1].ret.ok
    /\ call[1].ret.err = Nil

\* The object the scale-target reference of the decided candidate names, in
\* the candidate's own namespace, exists in the cluster the lookup met.
TargetExists ==
    LET ref == call[1].info.object.scaleTargetRef
    IN  ObjectKey(ref.apiVersion, ref.kind, ref.name, call[1].info.namespace)
            \in call[1].cluster.objects

\* C10 as stated: for every HorizontalPodAutoscaler candidate DetermineDeletion
\* performs one lookup and returns (true, nil) if and only if the target does
\* not exist at the time of the lookup, and (false, nil) when it exists.
C10_AutoscalerDeletedIffTargetMissing ==
    Decided(KindHorizontalPodAutoscaler) =>
        /\ call[1].ret.gets = 1
        /\ call[1].ret.err = Nil
        /\ call[1].ret.ok = ~TargetExists

\* The lookup of the decided candidate is sent: the payload converts and
\* the apiVersion of the scale target has at most one slash.
LookupSent ==
    /\ call[1].info.object.convertible
    /\ Len(call[1].info.object.scaleTargetRef.apiVersion) <= 2

\* The lookup of the decided candidate is sent and answered: the context is
\* live and the get request does not fail.
LookupAnswered ==
    /\ LookupSent
    /\ ~call[1].ctxDone
    /\ "get" \notin call[1].cluster.failing

\* C10 amended: when the payload converts and the apiVersion parses,
\* DetermineDeletion sends exactly one get request; if it is answered the
\* result is (true, nil) if and only if the target does not exist and
\* (false, nil) when it exists; if it fails or the context is cancelled the
\* result is (false, err).  When the payload does not convert or the
\* apiVersion does not parse, no request is sent and the result is
\* (false, err).
C10_AutoscalerDeletedIffLookupFindsNothing ==
    Decided(KindHorizontalPodAutoscaler) =>
        /\ call[1].ret.gets = IF LookupSent THEN 1 ELSE 0
        /\ IF LookupAnswered
           THEN /\ call[1].ret.err = Nil
                /\ call[1].ret.ok = ~TargetExists
           ELSE /\ call[1].ret.err # Nil
                /\ ~call[1].ret.ok

C10_Witness ==
    /\ Decided(KindHorizontalPodAutoscaler)
    /\ LookupAnswered
    /\ call[1].info.namespace = "other"
    /\ ~TargetExists
    /\ call[1].cluster.objects # {}
    /\ call[1].ret.ok

\* The kinds DetermineDeletion has a rule for.
SupportedKinds ==
    {KindPod, KindConfigMap, KindSecret, KindPersistentVolume, KindPersistentVolumeClaim,
     KindJob, KindPodDisruptionBudget, KindHorizontalPodAutoscaler}

\* The visit has handed a candidate of an unsupported kind to DetermineDeletion.
UnsupportedVisited ==
    \E i \in 1..idx :
        infos[i].kind \notin SupportedKinds /\ infos[i].namespace # NamespaceSystem

\* C11: for a candidate of a kind outside the eight supported ones
\* DetermineDeletion returns (false, err) with the 'unsupported kind' error,
\* the candidate is never deleted, and Run ends with a non-nil error.
C11_UnsupportedKindIsError ==
    /\ (call # <<>> /\ call[1].info.kind \notin SupportedKinds) =>
          /\ ~call[1].ret.ok
          /\ call[1].ret.err = "unsupported kind"
    /\ \A i \in DOMAIN deletes : deletes[i].key.kind \in SupportedKinds
    /\ (pc = "exit" /\ UnsupportedVisited) => err # Nil

C11_Witness ==
    /\ pc = "exit"
    /\ UnsupportedVisited
    /\ Len(infos) = 2
    /\ infos[1].kind = KindPod
    /\ Len(deletes) = 1
    /\ err = "unsupported kind"

\* What the lookup of the decided HorizontalPodAutoscaler candidate returned.
Lookup ==
    LET ref == call[1].info.object.scaleTargetRef
    IN  GetUnstructured(call[1].cluster, call[1].ctxDone, ref.apiVersion, ref.kind,
                        ref.name, call[1].info.namespace)

\* The get request of the decided candidate fails: the apiVersion does not
\* parse, the context is cancelled or the API answers with an error other
\* than not-found.
LookupFails ==
    \/ Len(call[1].info.object.scaleTargetRef.apiVersion) > 2
    \/ call[1].ctxDone
    \/ "get" \in call[1].cluster.failing

\* C12: GetUnstructured returns (object, nil) when the get succeeds, (nil, nil)
\* on not-found and (nil, err) on every other failure, an unparsable
\* apiVersion included; DetermineDeletion on a HorizontalPodAutoscaler returns
\* delete=true only on not-found and (false, err) with the lookup's error on a
\* failure.
C12_LookupHasThreeOutcomes ==
    (Decided(KindHorizontalPodAutoscaler) /\ call[1].info.object.convertible) =>
        /\ IF LookupFails THEN Lookup.u = <<>> /\ Lookup.err # Nil
           ELSE IF TargetExists THEN Lookup.u # <<>> /\ Lookup.err = Nil
           ELSE Lookup.u = <<>> /\ Lookup.err = Nil
        /\ call[1].ret.ok => (~LookupFails /\ ~TargetExists)
        /\ LookupFails => (~call[1].ret.ok /\ call[1].ret.err = Lookup.err)

C12_Witness ==
    /\ Decided(KindHorizontalPodAutoscaler)
    /\ call[1].info.object.convertible
    /\ "get" \in call[1].cluster.failing
    /\ ~call[1].ctxDone
    /\ ~TargetExists
    /\ call[1].ret.err = "get failed"
    /\ ~call[1].ret.ok

\* C13: for a PodDisruptionBudget whose selector cannot be converted,
\* determineUsedPodDisruptionBudget returns a non-nil error and
\* DetermineDeletion returns (false, err) with it, whatever pods the snapshot
\* holds: the budget is never deletable.
C13_MalformedSelectorIsError ==
    (/\ Decided(KindPodDisruptionBudget)
     /\ call[1].info.object.convertible
     /\ ~WellFormed(call[1].info.object.selector)) =>
        LET u == determineUsedPodDisruptionBudget(d, call[1].info.object)
        IN  /\ u.err # Nil
            /\ ~call[1].ret.ok
            /\ call[1].ret.err = u.err

C13_Witness ==
    /\ Decided(KindPodDisruptionBudget)
    /\ call[1].info.object.convertible
    /\ call[1].info.object.selector # <<>>
    /\ call[1].info.object.selector[1].matchExpressions # <<>>
    /\ call[1].info.object.selector[1].matchExpressions[1].operator = "Equals"
    /\ d.pods = <<>>
    /\ call[1].ret.err # Nil
    /\ ~call[1].ret.ok

\* A list request of New came back with an error.
ListFailed == \E i \in DOMAIN calls : calls[i].err # Nil

\* C14: if a list request of New fails (Pods, ReplicaSets,
\* PersistentVolumeClaims or ServiceAccounts), New returns that error and no
\* determiner, the command ends with it and Run is never started: no
\* candidate is listed, evaluated, prompted for or deleted.
C14_ListFailureStopsCommand ==
    ListFailed =>
        /\ pc = "exit"
        /\ err = calls[Len(calls)].err
        /\ d = EmptyDeterminer
        /\ call = <<>>
        /\ infos = <<>>
        /\ prompts = <<>>
        /\ deletes = <<>>
        /\ deletedInfos = <<>>
        /\ waited = <<>>

C14_Witness ==
    /\ ListFailed
    /\ Len(calls) = 3
    /\ calls[1].err = Nil
    /\ calls[3].request = "serviceaccounts"
    /\ err = "list serviceaccounts"

(***************************************************************************)
(* The matcher on its own: CheckVolumeSatisfyClaim and its four sub-checks *)
(* on a volume and a claim.                                                *)
(***************************************************************************)
Quantities == {<<>>, <<2>>, <<3>>, <<4>>}

AccessModeLists ==
    {<<>>, <<"ReadWriteOnce">>, <<"ReadOnlyMany">>, <<"ReadWriteOnce", "ReadOnlyMany">>}

VolumeModes == {Nil, PersistentVolumeFilesystem, PersistentVolumeBlock}

MatcherVolumes ==
    {PersistentVolume(q, a, c, m, am) :
        q \in Quantities, a \in {Nil, "", "fast"}, c \in {"", "fast", "slow"},
        m \in VolumeModes, am \in AccessModeLists}

MatcherClaims ==
    {PersistentVolumeClaim("default", q, a, c, m, am) :
        q \in Quantities, a \in {Nil, "", "fast"}, c \in {Nil, "", "fast", "slow"},
        m \in VolumeModes, am \in AccessModeLists}

\* What CheckVolumeSatisfyClaim and each of its sub-checks return.
Satisfaction(volume, claim) ==
    [ok       |-> CheckVolumeSatisfyClaim(volume, claim),
     capacity |-> checkCapacitySatisfyRequest(volume, claim),
     class    |-> checkStorageClassMatch(volume, claim),
     mode     |-> checkVolumeModeMatch(volume, claim),
     access   |-> checkAccessModesMatch(volume, claim)]

MInit ==
    /\ flags = DefaultFlags
    /\ deleteOpts = <<>>
    /\ pc = "match"
    /\ namespace = "default"
    /\ reap = NoReap
    /\ d = EmptyDeterminer
    /\ sas = <<>>
    /\ calls = <<>>
    /\ \E v \in MatcherVolumes : \E c \in MatcherClaims :
          call = <<[volume |-> v, claim |-> c, ret |-> <<>>]>>
    /\ infos = <<>>
    /\ idx = 0
    /\ prompts = <<>>
    /\ deletes = <<>>
    /\ out = <<>>
    /\ deletedInfos = <<>>
    /\ uidMap = {}
    /\ waited = <<>>
    /\ cancelled = FALSE
    /\ errs = <<>>
    /\ listErrs = <<>>
    /\ lookup = <<>>
    /\ seen = NoVisit
    /\ err = Nil

MCheck ==
    /\ pc = "match"
    /\ call' = <<[call[1] EXCEPT !.ret = <<Satisfaction(call[1].volume, call[1].claim)>>]>>
    /\ pc' = "matched"
    /\ UNCHANGED <<flags, deleteOpts, namespace, reap, d, sas, calls, infos, idx,
                   prompts, deletes, out, deletedInfos, uidMap, waited, cancelled, errs,
                   listErrs, err, lookup, seen>>

MNext == MCheck

SpecMatcher == MInit /\ [][MNext]_vars

\* The matcher has been applied to the volume and the claim of the state.
Matched == pc = "matched"

\* The storage amount of a quantity, in halves of a unit; 0 when missing.
Amount(q) == IF q = <<>> THEN 0 ELSE q[1]

\* The class of a volume or claim: the legacy annotation when present, else
\* the typed field, else the empty string.
ClassOf(o) ==
    IF o.annotationClass # Nil THEN o.annotationClass
    ELSE IF o.storageClassName # Nil THEN o.storageClassName
    ELSE ""

\* The volume mode, an unset one counting as Filesystem.
ModeOf(o) == IF o.volumeMode = Nil THEN "Filesystem" ELSE o.volumeMode

\* Every access mode of the claim is among the volume's.
ModesCovered(volume, claim) ==
    \A i \in DOMAIN claim.accessModes :
        \E j \in DOMAIN volume.accessModes : volume.accessModes[j] = claim.accessModes[i]

\* C15: CheckVolumeSatisfyClaim returns true if and only if the capacity is
\* strictly greater than the request, the storage classes are equal, the
\* volume modes are equal (unset counting as Filesystem) and every access mode
\* of the claim is among the volume's.
C15_SatisfiedIffAllFourHold ==
    Matched =>
        LET v == call[1].volume
            c == call[1].claim
        IN  call[1].ret[1].ok =
               (/\ Amount(v.capacity) > Amount(c.request)
                /\ ClassOf(v) = ClassOf(c)
                /\ ModeOf(v) = ModeOf(c)
                /\ ModesCovered(v, c))

\* C16: the capacity sub-check is strict: CheckVolumeSatisfyClaim is false for
\* every volume whose capacity is less than or equal to the request (1 against
\* 1 is false, 2 against 1 passes the sub-check), and a missing storage
\* quantity on either side counts as 0.
C16_CapacityCheckIsStrict ==
    Matched =>
        LET v == call[1].volume
            c == call[1].claim
            r == call[1].ret[1]
        IN  /\ Amount(v.capacity) <= Amount(c.request) => (~r.capacity /\ ~r.ok)
            /\ (v.capacity = <<2>> /\ c.request = <<2>>) => ~r.capacity
            /\ (v.capacity = <<4>> /\ c.request = <<2>>) => r.capacity
            /\ v.capacity = <<>> => ~r.capacity
            /\ c.request = <<>> => (r.capacity = (Amount(v.capacity) > 0))

C16_Witness ==
    /\ Matched
    /\ call[1].volume.capacity = <<2>>
    /\ call[1].claim.request = <<2>>
    /\ call[1].ret[1].class
    /\ call[1].ret[1].mode
    /\ call[1].ret[1].access
    /\ call[1].claim.accessModes # <<>>
    /\ ~call[1].ret[1].ok

\* C17: the storage-class sub-check compares the claim's class (annotation
\* when present, else the typed field, else empty) with the volume's class in
\* the same order; CheckVolumeSatisfyClaim is false whenever they differ,
\* whatever the other sub-checks say, and two empty classes match.
C17_StorageClassDecides ==
    Matched =>
        LET v == call[1].volume
            c == call[1].claim
            r == call[1].ret[1]
        IN  /\ r.class = (ClassOf(v) = ClassOf(c))
            /\ ClassOf(v) # ClassOf(c) => ~r.ok
            /\ (ClassOf(v) = "" /\ ClassOf(c) = "") => r.class

C17_Witness ==
    /\ Matched
    /\ call[1].claim.annotationClass = "fast"
    /\ call[1].claim.storageClassName = "slow"
    /\ call[1].volume.annotationClass = Nil
    /\ call[1].volume.storageClassName = "fast"
    /\ call[1].ret[1].ok

\* C18: the access-mode sub-check passes if and only if every access mode of
\* the claim is among the volume's; a claim without access modes always
\* passes, and a volume that satisfies a claim still satisfies it with one
\* more access mode.
C18_AccessModesAreSubsetChecked ==
    Matched =>
        LET v == call[1].volume
            c == call[1].claim
            r == call[1].ret[1]
        IN  /\ r.access = ModesCovered(v, c)
            /\ c.accessModes = <<>> => r.access
            /\ r.ok =>
                  \A m \in {"ReadWriteOnce", "ReadOnlyMany", "ReadWriteMany"} :
                      CheckVolumeSatisfyClaim(
                          [v EXCEPT !.accessModes = Append(@, m)], c)

C18_Witness ==
    /\ Matched
    /\ call[1].volume.accessModes = <<"ReadWriteOnce", "ReadOnlyMany">>
    /\ call[1].claim.accessModes = <<"ReadOnlyMany">>
    /\ call[1].ret[1].ok

\* The list requests New sent.
Requests == {calls[i].request : i \in DOMAIN calls}

\* The kinds of the candidates New's visit saw.
SeenKinds == {infos[i].kind : i \in DOMAIN infos}

\* C19: New lists ServiceAccounts only when there is a Secret candidate,
\* PersistentVolumeClaims only when there is a PersistentVolume candidate,
\* ReplicaSets only when there is a ConfigMap or Secret candidate, Pods only
\* when there is a ConfigMap, Secret, PersistentVolumeClaim or
\* PodDisruptionBudget candidate, and nothing at all when the candidates are
\* only Pods, Jobs and HorizontalPodAutoscalers.
C19_NewListsOnlyWhatIsNeeded ==
    pc # "new" =>
        /\ "serviceaccounts" \in Requests => KindSecret \in SeenKinds
        /\ "persistentvolumeclaims" \in Requests => KindPersistentVolume \in SeenKinds
        /\ "replicasets" \in Requests => SeenKinds \cap {KindConfigMap, KindSecret} # {}
        /\ "pods" \in Requests =>
              SeenKinds \cap {KindConfigMap, KindSecret, KindPersistentVolumeClaim,
                              KindPodDisruptionBudget} # {}
        /\ SeenKinds \subseteq {KindPod, KindJob, KindHorizontalPodAutoscaler} =>
              calls = <<>>

C19_Witness ==
    /\ pc = "built"
    /\ SeenKinds = {KindPod, KindJob, KindHorizontalPodAutoscaler}
    /\ calls = <<>>
    /\ d = EmptyDeterminer

Determines ==
    \/ pc = "visit" /\ idx < Len(infos) /\ idx' = idx + 1 /\ ~Ignored(infos[idx + 1])
    \/ pc = "visit" /\ pc' = "approved"
    \/ pc = "lookup" /\ pc' # "lookup"

\* The last prompt shown was for the candidate and was confirmed.
LastPromptConfirms(ps, info) == ps # <<>> /\ ps[Len(ps)] = Prompt(info, "yes")

\* C21: in interactive mode a delete request is issued for a candidate only
\* after the determiner approved it and the prompt for that same candidate
\* was confirmed; no prompt is shown for a candidate the determiner did not
\* approve; a declined or failed prompt skips the candidate without an error
\* and the visit goes on with the next candidate.
C21_DeleteOnlyAfterConfirmedPrompt ==
    [][flags.interactive =>
          LET asked == prompts' # prompts
          IN  /\ (deletes' # deletes \/ deletedInfos' # deletedInfos) =>
                    /\ pc \in {"confirmed", "delete"}
                    /\ LastPromptConfirms(prompts, infos[idx + 1])
                    /\ prompts' = prompts
                    /\ call[1].info = infos[idx + 1]
                    /\ call[1].ret.ok
              /\ deletes' # deletes =>
                    /\ Len(deletes') = Len(deletes) + 1
                    /\ deletes'[Len(deletes')].key = Key(infos[idx + 1])
              /\ asked =>
                    /\ pc = "approved"
                    /\ \E reply \in PromptReplies :
                          prompts' = Append(prompts, Prompt(infos[idx + 1], reply))
                    /\ call[1].info = infos[idx + 1]
                    /\ call[1].ret.ok
                    /\ call[1].ret.err = Nil
              /\ Determines =>
                    /\ call'[1].info = infos[idx + 1]
                    /\ prompts' = prompts
                    /\ IF call'[1].ret.ok
                       THEN pc' = "approved" /\ idx' = idx
                       ELSE pc' = "visit" /\ idx' = idx + 1
              /\ pc' = "approved" => (Determines /\ call'[1].ret.ok) \/ pc = "approved"
              /\ (pc = "approved" /\ pc' # "approved") => asked
              /\ (asked /\ prompts'[Len(prompts')].reply # "yes") =>
                    /\ deletes' = deletes
                    /\ deletedInfos' = deletedInfos
                    /\ out' = out
                    /\ errs' = errs
                    /\ err' = Nil
                    /\ pc' = "visit"
                    /\ idx' = idx + 1
              /\ (asked /\ prompts'[Len(prompts')].reply = "yes") =>
                    /\ pc' = "confirmed"
                    /\ idx' = idx]_vars

C21_Witness ==
    /\ flags.interactive
    /\ pc = "exit"
    /\ err = Nil
    /\ Len(prompts) = 2
    /\ prompts[1].reply = "error"
    /\ prompts[2].reply = "yes"
    /\ Len(deletes) = 1
    /\ deletes[1].key.name = prompts[2].name
    /\ deletes[1].key.kind = prompts[2].kind

\* The lines printObj wrote.
IsObjectLine(l) == l.key # NoKey

ObjectLines(o) == SelectSeq(o, IsObjectLine)

\* The operation message the printer writes under the strategy of f.
OperationMessage(f) ==
    IF f.dryRunStrategy = DryRunClient THEN "deleted (dry run)"
    ELSE IF f.dryRunStrategy = DryRunServer THEN "deleted (server dry run)"
    ELSE "deleted"

\* The entries of a log of keys, or of records with a key, that name k.
Naming(log, k) ==
    LET F[i \in 0..Len(log)] ==
            IF i = 0 THEN <<>>
            ELSE IF log[i] = k \/ ("key" \in DOMAIN log[i] /\ log[i].key = k)
                 THEN Append(F[i - 1], log[i]) ELSE F[i - 1]
    IN  F[Len(log)]

\* The prompts shown for the candidate k.
PromptsFor(ps, k) ==
    LET F[i \in 0..Len(ps)] ==
            IF i = 0 THEN <<>>
            ELSE IF [kind |-> ps[i].kind, namespace |-> ps[i].namespace,
                     name |-> ps[i].name] = k
                 THEN Append(F[i - 1], ps[i]) ELSE F[i - 1]
    IN  F[Len(ps)]

\* The objects printObj wrote a line for, in the order of the lines.
PrintedObjects(o) == [i \in DOMAIN ObjectLines(o) |-> ObjectLines(o)[i].key]

\* Run's callback has nothing behind it.
NoLocals ==
    [prompts |-> <<>>, deletes |-> <<>>, out |-> <<>>, deletedInfos |-> <<>>,
     uidMap |-> {}, errs |-> <<>>]

\* The flags f with another dry-run strategy.
UnderStrategy(f, s) == [f EXCEPT !.dryRunStrategy = s]

\* The callback returns in this step.
CallbackReturns == idx' = idx + 1

\* The determiner approved the candidate the callback returns from.
ApprovedCandidate ==
    /\ ~Ignored(infos[idx + 1])
    /\ call' # <<>>
    /\ call'[1].info = infos[idx + 1]
    /\ call'[1].ret.ok

\* What the callback leaves behind for the candidate it returns from is
\* what Approved leaves behind under the flags f for some answers of the
\* prompt, the dry-run verifier and the delete request.
LeavesWhatApprovedLeaves(f) ==
    LET info == infos[idx + 1]
        k    == Key(info)
    IN  \E reply \in PromptReplies : \E support \in BOOLEAN : \E resp \in Responses :
           LET nx == Approved(f, deleteOpts, NoLocals, info, reply, support, resp)
           IN  /\ PromptsFor(prompts', k) = nx.prompts
               /\ Naming(deletes', k) = nx.deletes
               /\ Naming(out', k) = ObjectLines(nx.out)
               /\ Naming(deletedInfos', k) = nx.deletedInfos
               /\ (k \in uidMap') = (k \in nx.uidMap)
               /\ (errs' # errs) = (nx.errs # <<>>)

\* For the same answers of the prompt, a supporting dry-run verifier and a
\* delete request that does not fail, Approved prints the same objects for
\* the candidate under the three strategies.
SameObjectsUnderEveryStrategy(info) ==
    \A reply \in PromptReplies : \A resp \in Responses \ {"error"} :
    \A s \in {DryRunNone, DryRunClient, DryRunServer} :
       PrintedObjects(Approved(UnderStrategy(flags, s), deleteOpts, Locals, info,
                               reply, TRUE, resp).out)
          = PrintedObjects(Approved(flags, deleteOpts, Locals, info,
                                    reply, TRUE, resp).out)

\* What the visit of Run returns at its end.
VisitEnds == pc = "visit" /\ pc' \in {"exit", "wait"}

\* C22 as stated: with quiet unset, under each strategy, Run prints one
\* 'deleted' line for every candidate the determiner approves and none for
\* any other, in the order of the visit, and Run returns no error.
C22_OneLinePerApprovedCandidate ==
    [][~flags.quiet =>
          /\ CallbackReturns =>
                Len(Naming(out', Key(infos[idx + 1]))) = IF ApprovedCandidate THEN 1 ELSE 0
          /\ ObjectLines(out') # ObjectLines(out) =>
                ObjectLines(out') =
                   Append(ObjectLines(out),
                          Line("out", OperationMessage(flags), Key(infos[idx + 1])))
          /\ VisitEnds => (idx = Len(infos) /\ err' = Nil)]_vars

\* C22, amended: with quiet unset Run prints one line, with the message of
\* the strategy, for each candidate that the determiner approves, whose
\* prompt (in interactive mode) is confirmed and whose dry-run check and
\* delete request do not fail, in the order of the visit, and no line for any
\* other candidate.  The visit ends only after every listed candidate was
\* visited, also after a failed list request, and Run returns nil exactly if
\* no list request and no callback failed.  For the same approvals and
\* answers, and without a failing check or request, the printed objects are
\* the same under the three strategies.
C22_OneLinePerDeletedCandidate ==
    [][~flags.quiet =>
          /\ CallbackReturns =>
                LET info      == infos[idx + 1]
                    confirmed == \/ ~flags.interactive
                                 \/ LastPromptConfirms(prompts', info)
                    failed    == errs' # errs
                IN  /\ Len(Naming(out', Key(info))) =
                          IF ApprovedCandidate /\ confirmed /\ ~failed THEN 1 ELSE 0
                    /\ ApprovedCandidate => LeavesWhatApprovedLeaves(flags)
          /\ ObjectLines(out') # ObjectLines(out) =>
                ObjectLines(out') =
                   Append(ObjectLines(out),
                          Line("out", OperationMessage(flags), Key(infos[idx + 1])))
          /\ pc = "approved" => SameObjectsUnderEveryStrategy(infos[idx + 1])
          /\ VisitEnds =>
                /\ idx = Len(infos)
                /\ err' = Nil <=> (errs = <<>> /\ listErrs = <<>>)]_vars

C22_Witness ==
    /\ ~flags.quiet
    /\ ~flags.interactive
    /\ flags.dryRunStrategy = DryRunServer
    /\ pc = "exit"
    /\ err = "list failed"
    /\ listErrs = <<"list failed">>
    /\ errs = <<>>
    /\ Len(infos) = 2
    /\ infos[1].name = "a"
    /\ infos[1].kind = KindPod
    /\ infos[2].kind = KindHorizontalPodAutoscaler
    /\ call[1].info = infos[2]
    /\ ~call[1].ret.ok
    /\ ObjectLines(out) = <<Line("out", "deleted (server dry run)", Key(infos[1]))>>
    /\ Len(deletes) = 1

\* C23: every HorizontalPodAutoscaler lookup Run causes is sent under the
\* context the interrupt handler cancels; once it is cancelled a lookup,
\* in flight or sent later, fails with an error, the result is (false, err),
\* and no prompt, delete request or line follows for that
\* HorizontalPodAutoscaler.
C23_CancelledLookupFails ==
    [][/\ (/\ pc = "visit"
           /\ idx < Len(infos)
           /\ (idx' = idx + 1 \/ pc' # "visit")
           /\ infos[idx + 1].kind = KindHorizontalPodAutoscaler
           /\ infos[idx + 1].object.convertible
           /\ ~Ignored(infos[idx + 1])) =>
              /\ pc' = "lookup"
              /\ idx' = idx
              /\ lookup' = <<[key |-> Key(infos[idx + 1]), sentDone |-> cancelled]>>
       /\ (pc = "lookup" /\ pc' # "lookup") =>
              /\ infos[idx + 1].kind = KindHorizontalPodAutoscaler
              /\ lookup # <<>>
              /\ lookup[1].key = Key(infos[idx + 1])
              /\ call'[1].info = infos[idx + 1]
              /\ call'[1].ctxDone = cancelled
              /\ cancelled =>
                    /\ ~call'[1].ret.ok
                    /\ call'[1].ret.err = "context canceled"
                    /\ errs' = Append(errs, call'[1].ret.err)
                    /\ pc' = "visit"
                    /\ idx' = idx + 1
                    /\ UNCHANGED <<prompts, deletes, deletedInfos, out>>]_vars

\* The lookup was in flight when the interrupt handler cancelled the
\* context, and failed.
C23_Witness ==
    /\ cancelled
    /\ pc = "exit"
    /\ lookup # <<>>
    /\ ~lookup[1].sentDone
    /\ call # <<>>
    /\ call[1].info.kind = KindHorizontalPodAutoscaler
    /\ Key(call[1].info) = lookup[1].key
    /\ call[1].ctxDone
    /\ call[1].cluster.objects = {}
    /\ call[1].cluster.failing = {}
    /\ call[1].ret.gets = 1
    /\ call[1].ret.err = "context canceled"
    /\ err = "context canceled"
    /\ deletes = <<>>

\* C24: Validate fails, before anything is deleted, if force is set with a
\* grace period greater than 0.  When Validate and Complete succeed the
\* delete options are: without force, grace period 1 for a requested 0, none
\* for a negative one and the requested one otherwise; with force, grace
\* period 0 for a requested 0 or a negative one.  So they carry grace
\* period 0 only if force is set, and every delete request carries them.
C24_GracePeriodZeroOnlyIfForced ==
    [][LET g     == flags.gracePeriod
           force == flags.forceDeletion
       IN  /\ (pc = "validate" /\ pc' # "validate" /\ force /\ g > 0) =>
                  /\ pc' = "exit"
                  /\ err' # Nil
                  /\ deletes' = <<>>
           /\ pc # "complete" => deleteOpts' = deleteOpts
           /\ (pc = "complete" /\ pc' # "complete") =>
                  /\ ~(force /\ g > 0)
                  /\ (~force /\ g = 0) => deleteOpts' = <<1>>
                  /\ (~force /\ g < 0) => deleteOpts' = <<>>
                  /\ (~force /\ g > 0) => deleteOpts' = <<g>>
                  /\ (force /\ g <= 0) => deleteOpts' = <<0>>
                  /\ deleteOpts' = <<0>> => force
           /\ \A i \in DOMAIN deletes' :
                  /\ deletes'[i].opts = deleteOpts'
                  /\ deletes'[i].opts = <<0>> => force]_vars

C24_Witness ==
    /\ flags.forceDeletion
    /\ out # <<>>
    /\ out[1].text = "warning: Immediate deletion"
    /\ deleteOpts = <<0>>
    /\ deletes # <<>>
    /\ deletes[1].opts = <<0>>

\* The candidates named in a log of keys, prompts, requests or lines.
KeysOf(log) == {Key(log[i]) : i \in DOMAIN log}

\* C25: when the last DetermineDeletion call of Run returned an error, it
\* returned false with it, no prompt, delete request or line exists for
\* that candidate, the error is among those the visit gathered, and what Run
\* returns is that error or the aggregate holding it.
C25_ErrorMeansNoDeletion ==
    /\ (call # <<>> /\ call[1].ret.err # Nil) =>
          LET k == Key(call[1].info)
          IN  /\ ~call[1].ret.ok
              /\ k \notin KeysOf(prompts)
              /\ k \notin {deletes[i].key : i \in DOMAIN deletes}
              /\ k \notin {out[i].key : i \in DOMAIN out}
              /\ k \notin KeysOf(deletedInfos)
              /\ \E i \in DOMAIN errs : errs[i] = call[1].ret.err
    /\ (pc = "exit" /\ errs # <<>>) =>
          /\ err # Nil
          /\ err = IF Len(errs) = 1 /\ listErrs = <<>> THEN errs[1] ELSE "aggregate"
          /\ waited = <<>>

C25_Witness ==
    /\ pc = "exit"
    /\ flags.interactive
    /\ ~flags.quiet
    /\ errs = <<"unsupported kind", "invalid label selector">>
    /\ call[1].info.kind = KindPodDisruptionBudget
    /\ call[1].ret.err = "invalid label selector"
    /\ err = "aggregate"
    /\ prompts = <<>>
    /\ deletes = <<>>

\* The usage index of the kind was built by New.
IndexBuilt(kind) ==
    CASE kind = KindConfigMap -> reap.configMaps
      [] kind = KindSecret -> reap.secrets
      [] kind = KindPersistentVolumeClaim -> reap.persistentVolumeClaims
      [] OTHER -> FALSE

\* The usage index of the kind, as the determiner holds it.
IndexOf(kind) ==
    CASE kind = KindConfigMap -> d.usedConfigMaps
      [] kind = KindSecret -> d.usedSecrets
      [] kind = KindPersistentVolumeClaim -> d.usedPersistentVolumeClaims
      [] OTHER -> {}

\* C26: in a run of the command, DetermineDeletion returns true for a
\* ConfigMap, Secret or PersistentVolumeClaim candidate only if New built
\* the usage index of that kind and the index does not hold the candidate's
\* name, also when Run's visit yields a candidate of a kind New's visit did
\* not yield.
C26_DeletableOnlyFromBuiltIndex ==
    (/\ call # <<>>
     /\ call[1].info.kind \in {KindConfigMap, KindSecret, KindPersistentVolumeClaim}
     /\ call[1].ret.ok) =>
        /\ IndexBuilt(call[1].info.kind)
        /\ call[1].info.name \notin IndexOf(call[1].info.kind)

\* C27: once the interrupt handler has announced the cancellation and
\* cancelled the context, no further delete request is issued, whatever the
\* kind of the candidates visited afterwards.
C27_NoDeleteAfterCancellation ==
    [][cancelled => deletes' = deletes]_vars

\* C28: every object handed to waitDeletion is one for which Run issued a
\* delete request that was not a dry run and did not fail, and under the
\* client or the server dry-run strategy no object is handed to it.
C28_WaitsOnlyForDeletedObjects ==
    waited # <<>> =>
        /\ \A i \in DOMAIN waited[1].infos :
              \E j \in DOMAIN deletes :
                 /\ deletes[j].key = waited[1].infos[i]
                 /\ ~deletes[j].dryRun
        /\ errs = <<>>
        /\ flags.dryRunStrategy # DryRunNone => waited[1].infos = <<>>

\* The objects of seq that live in the namespace ns.
OfNamespace(seq, ns) ==
    LET F[i \in 0..Len(seq)] ==
            IF i = 0 THEN <<>>
            ELSE IF seq[i].namespace = ns THEN Append(F[i - 1], seq[i]) ELSE F[i - 1]
    IN  F[Len(seq)]

\* The determiner New would have built, with the same candidates, from the
\* snapshot without the Pods, ReplicaSets and ServiceAccounts outside ns.
OwnNamespaceOnly(dd, accounts, ns) ==
    LET d1 == [dd EXCEPT !.pods = OfNamespace(@, ns),
                         !.replicaSets = OfNamespace(@, ns)]
        d2 == IF reap.configMaps
              THEN [d1 EXCEPT !.usedConfigMaps = detectUsedConfigMaps(d1)] ELSE d1
        d3 == IF reap.secrets
              THEN [d2 EXCEPT !.usedSecrets =
                                  detectUsedSecrets(d2, OfNamespace(accounts, ns))]
              ELSE d2
    IN  IF reap.persistentVolumeClaims
        THEN [d3 EXCEPT !.usedPersistentVolumeClaims =
                            detectUsedPersistentVolumeClaims(d3)]
        ELSE d3

\* C29: under the all-namespaces scope, the result of DetermineDeletion for
\* a ConfigMap, Secret, PersistentVolumeClaim or PodDisruptionBudget
\* candidate is the result the same call gives on the snapshot without the
\* Pods, ReplicaSets and ServiceAccounts of the other namespaces.
C29_OtherNamespacesDoNotDecide ==
    (/\ call # <<>>
     /\ namespace = NamespaceAll
     /\ call[1].info.kind \in {KindConfigMap, KindSecret, KindPersistentVolumeClaim,
                               KindPodDisruptionBudget}) =>
        call[1].ret =
            DetermineDeletion(OwnNamespaceOnly(d, sas, call[1].info.namespace),
                              call[1].cluster, call[1].ctxDone, call[1].info)

\* The pod spec with its init containers in the place of its containers and
\* nothing else.
InitOnly(spec) == PodSpec(<<>>, spec.initContainers, <<>>, <<>>)

\* An init container of some Pod of the snapshot refers to the ConfigMap n.
ConfigMapInInitContainer(n) ==
    \E i \in DOMAIN d.pods : RefersToConfigMap(InitOnly(d.pods[i].spec), n)

\* An init container of some Pod of the snapshot refers to the Secret n, or
\* the pod template of some ReplicaSet names it as an image pull secret.
SecretInInitContainerOrTemplatePull(n) ==
    \/ \E i \in DOMAIN d.pods : RefersToSecret(InitOnly(d.pods[i].spec), n)
    \/ \E i \in DOMAIN d.replicaSets :
          \E j \in DOMAIN d.replicaSets[i].template.imagePullSecrets :
             d.replicaSets[i].template.imagePullSecrets[j] = n

\* C30: a ConfigMap or Secret referred to only from the init containers of
\* a Pod, or a Secret named only among the image pull secrets of a
\* ReplicaSet's pod template, is not in the usage index, and
\* DetermineDeletion returns (true, nil) for it.
C30_InitContainersAreNotScanned ==
    /\ (/\ Decided(KindConfigMap)
        /\ ConfigMapInInitContainer(call[1].info.name)
        /\ ~ConfigMapReferenced(call[1].info.name)) =>
           /\ call[1].info.name \notin d.usedConfigMaps
           /\ call[1].ret = Decision(TRUE, Nil, 0)
    /\ (/\ Decided(KindSecret)
        /\ SecretInInitContainerOrTemplatePull(call[1].info.name)
        /\ ~SecretReferenced(call[1].info.name)) =>
           /\ call[1].info.name \notin d.usedSecrets
           /\ call[1].ret = Decision(TRUE, Nil, 0)

C30_Witness ==
    /\ Decided(KindConfigMap)
    /\ reap.configMaps
    /\ call[1].info.name = "a"
    /\ ConfigMapInInitContainer("a")
    /\ d.usedConfigMaps = {}
    /\ call[1].ret.ok

====
